---- MODULE Spec2Model ----
(***************************************************************************)
(* cloud-storage-utility: the batched, concurrent object-storage engine.   *)
(*                                                                         *)
(*   SpecSplit  IbmCloudStorage.get_remove_items_coroutines, the pure      *)
(*              function that cuts a key list into bulk-delete requests.   *)
(*   Spec       FileBroker.upload_files / download_files / remove_items:   *)
(*              the operations of IbmCloudStorage run in windows by        *)
(*              FileBroker.__gather_results on one asyncio event loop.     *)
(*   SpecBroker one FileBroker in the hands of a sequential caller: it is  *)
(*              opened and closed, and its verbs are called one after the  *)
(*              other, each for one item, on one credential cache.         *)
(*   SpecList   IbmCloudStorage.get_bucket_keys on a listing the provider  *)
(*              serves as a chain of pages.                                *)
(*   SpecVerbs  the four verbs called with keys, paths and prefixes: what  *)
(*              each passes to the service, the requests that go out and   *)
(*              the files that are opened for writing.                     *)
(*   SpecSync   FileBroker.sync_local_files on a list of paths and a disk. *)
(*   SpecListFair, SpecTwice, SpecClock  get_bucket_keys with every        *)
(*              request answered, called twice, and with a running clock.  *)
(*   SpecLife   the sessions a FileBroker creates under `async with` and   *)
(*              under open / close.                                        *)
(***************************************************************************)
EXTENDS Integers, Sequences, FiniteSets, TLC

VARIABLES
    \* ---- SpecSplit -------------------------------------------------------
    item_names,     \* the argument of get_remove_items_coroutines
    delete_tasks,   \* the list it returned
    split_pc,       \* "input" before the call, "done" after it
    \* ---- Spec: IbmCloudStorage ------------------------------------------
    now,            \* int(time.time()) when the clock was last read
    expires_at,     \* IbmCloudStorage.__expires_at
    access_token,   \* IbmCloudStorage.__access_token (0 is the initial "")
    \* ---- Spec: FileBroker and the verb call in progress -----------------
    batch_limit,    \* FileBroker.config.batch_limit
    pc,             \* the caller: "idle", "gather", "returned", "raised"
    verb,           \* "none", "upload_files", "download_files", "remove_items"
    args,           \* the arguments the verb was called with
    forwarded,      \* the call of the service the verb has made
    returned,       \* the value the verb has returned to its caller
    cbmode,         \* the callback argument: "none", "ok", or one that "raises"
    tasks,          \* the coroutines the service built, with their progress
    window,         \* i of `for i in range(0, len(tasks), batch_limit)`
    results,        \* the results list of __gather_results
    overtaken,      \* an operation ended before an earlier one of its window
    \* ---- SpecBroker: the broker's life and its caller -------------------
    session,        \* FileBroker.session: "None", "open" or "closed"
    service,        \* FileBroker.service: "None" or "IbmCloudStorage"
    platform,       \* FileBroker.platform: "ibm" or "azure"
    replaced,       \* sessions the broker created and left open when it put
                    \* another one into FileBroker.session
    scope,          \* where the caller is with the broker: "out", "with"
                    \* (in the body of async with), "opened", "exited"
    calls,          \* the verb calls the caller has made
    last_token,     \* the most recent call of __get_auth_token, as observed
    carried,        \* the <<access_token, expiration>> pairs of the responses
                    \* of the token endpoint that carried both
    \* ---- SpecList: IbmCloudStorage.get_bucket_keys ----------------------
    bucket,         \* the pages the provider serves, in order
    lister,         \* the locals of get_bucket_keys and what it returned
    \* ---- SpecVerbs, SpecSync: what the calls do to the world ------------
    wire,           \* the storage requests issued, in the order they were sent
    disk,           \* the local paths that exist, os.path.exists
    written,        \* the local paths the downloads opened for writing
    sync,           \* the locals of sync_local_files
    listed          \* what the get_bucket_keys call before this one returned

split_vars  == <<item_names, delete_tasks, split_pc>>
cache_vars  == <<now, expires_at, access_token>>
call_vars   == <<batch_limit, pc, verb, args, forwarded, returned, cbmode, tasks,
                 window, results, overtaken>>
life_vars   == <<session, service, platform, replaced, scope>>
caller_vars == <<calls, last_token, carried>>
list_vars   == <<bucket, lister>>
world_vars  == <<wire, disk, written, sync, listed>>
vars        == <<split_vars, cache_vars, call_vars, life_vars, caller_vars,
                 list_vars, world_vars>>

(***************************************************************************)
(* Bounds of the model.                                                    *)
(***************************************************************************)
\* key lists of SpecSplit hold q * 1000 + r keys, q in 0..MaxFullBatches
MaxFullBatches == 2
\* ... and r in -Slack..Slack
Slack == 3
\* key patterns of SpecSplit: 0 = all keys distinct, p >= 1 = key i is i % p
MaxKeyPattern == 3

\* an upload_files call of Spec builds at most MaxOps operations
MaxOps == 3
\* a download_files call of Spec builds at most MaxDownloadOps operations
MaxDownloadOps == 2
\* a remove_items call of Spec builds at most MaxRemoveOps bulk-delete
\* operations (of 1000 keys each, but the last)
MaxRemoveOps == 2
\* batch_limit of Spec ranges over -1..MaxBatchLimit
MaxBatchLimit == 2
\* the clock of Spec runs from 0 to MaxTime
MaxTime == 1
\* a token-exchange response answered at time t carries expiration t + TokenTTL
TokenTTL == 1
\* the sequential caller of SpecBroker makes at most MaxCalls verb calls
MaxCalls == 3
\* a verb call of SpecVerbs is for at most MaxItems mappings or keys
MaxItems == 2
\* a sync_local_files call of SpecSync is for at most MaxSyncPaths paths
MaxSyncPaths == 3
\* the caller of SpecTwice calls get_bucket_keys MaxListCalls times
MaxListCalls == 2
\* the caller of SpecLife has at most MaxOpens sessions open at a time
MaxOpens == 2
\* a listing of SpecList is served in 1..MaxPages pages
MaxPages == 2
\* ... of keys out of 1..MaxListKeys
MaxListKeys == 3

(***************************************************************************)
(* Program constants.                                                      *)
(***************************************************************************)
\* "the cloud function only allows up to 1000 keys per request"
MaxKeysPerRequest == 1000

(***************************************************************************)
(* Strings and paths, as Python computes them (posixpath).                 *)
(***************************************************************************)
\* string.startswith(prefix)
startswith(string, prefix) ==
    /\ Len(prefix) <= Len(string)
    /\ SubSeq(string, 1, Len(prefix)) = prefix

\* a plausible slip: the prefix is never taken off
strip_prefix_Keep(string, prefix) == string

\* common/util.py
strip_prefix(string, prefix) ==
    IF startswith(string, prefix)
    THEN SubSeq(string, Len(prefix) + 1, Len(string))
    ELSE string

\* os.path.join(a, b): an absolute b discards a
os_path_join(a, b) ==
    IF startswith(b, "/") THEN b
    ELSE IF a = "" \/ SubSeq(a, Len(a), Len(a)) = "/" THEN a \o b
    ELSE a \o "/" \o b

\* p.rfind("/") + 1: the length of the part of p up to its last "/"
HeadLen(p) ==
    LET seps == {i \in 1..Len(p) : SubSeq(p, i, i) = "/"}
    IN  IF seps = {} THEN 0 ELSE CHOOSE i \in seps : \A j \in seps : j <= i

\* os.path.dirname(p): the head without its trailing "/", unless the head
\* is made of "/" only
os_path_dirname(p) ==
    LET head == SubSeq(p, 1, HeadLen(p))
        rest == {i \in 1..Len(head) : SubSeq(head, i, i) # "/"}
    IN  IF rest = {} THEN head
        ELSE SubSeq(head, 1, CHOOSE i \in rest : \A j \in rest : j <= i)

\* os.path.basename(p)
os_path_basename(p) == SubSeq(p, HeadLen(p) + 1, Len(p))

(***************************************************************************)
(* IbmCloudStorage.get_remove_items_coroutines                             *)
(***************************************************************************)
Min(a, b) == IF a < b THEN a ELSE b

\* a plausible slip: the request list is not reset after it was closed
LoopBody_NoReset(s, names, i) ==
    LET request == Append(s.request, [Key |-> names[i + 1]])
    IN  IF (i + 1) % MaxKeysPerRequest = 0
        THEN [request |-> request,
              delete_requests |-> Append(s.delete_requests, [Object |-> request])]
        ELSE [request |-> request, delete_requests |-> s.delete_requests]

\* a plausible slip: the 0-based index is tested instead of i + 1
LoopBody_ZeroBased(s, names, i) ==
    LET request == Append(s.request, [Key |-> names[i + 1]])
    IN  IF i % MaxKeysPerRequest = 0
        THEN [request |-> <<>>,
              delete_requests |-> Append(s.delete_requests, [Object |-> request])]
        ELSE [request |-> request, delete_requests |-> s.delete_requests]

\* One iteration of `for i, name in enumerate(item_names)`; i is 0-based as
\* in the code, s holds the loop's locals request and delete_requests.
LoopBody(s, names, i) ==
    LET request == Append(s.request, [Key |-> names[i + 1]])
    IN  IF (i + 1) % MaxKeysPerRequest = 0
        THEN [request |-> <<>>,
              delete_requests |-> Append(s.delete_requests, [Object |-> request])]
        ELSE [request |-> request, delete_requests |-> s.delete_requests]

\* The iterations lo..hi of the loop, in order, from the locals s.  The
\* range is halved so that the evaluation depth stays logarithmic; the test
\* on `left` makes TLC finish the first half before it starts the second.
RECURSIVE RunLoop(_, _, _, _)
RunLoop(s, names, lo, hi) ==
    IF lo > hi THEN s
    ELSE IF lo = hi THEN LoopBody(s, names, lo)
    ELSE LET mid  == (lo + hi) \div 2
             left == RunLoop(s, names, lo, mid)
         IN  IF Len(left.request) >= 0
             THEN RunLoop(left, names, mid + 1, hi)
             ELSE left

\* a plausible slip: the leftover request is not appended
remove_requests_NoLeftover(names) ==
    IF Len(names) = 0 THEN <<>>
    ELSE RunLoop([request |-> <<>>, delete_requests |-> <<>>],
                 names, 0, Len(names) - 1).delete_requests

\* The delete_requests list built by get_remove_items_coroutines.
remove_requests(names) ==
    IF Len(names) = 0 THEN <<>>
    ELSE LET s == RunLoop([request |-> <<>>, delete_requests |-> <<>>],
                          names, 0, Len(names) - 1)
         IN  IF Len(s.request) > 0
             THEN Append(s.delete_requests, [Object |-> s.request])
             ELSE s.delete_requests

\* The returned delete_tasks: one remove_item coroutine per delete request.
get_remove_items_coroutines(bucket_name, names, callback) ==
    LET delete_requests == remove_requests(names)
    IN  [k \in 1..Len(delete_requests) |->
            [op             |-> "remove_item",
             bucket_name    |-> bucket_name,
             delete_request |-> delete_requests[k],
             callback       |-> callback]]

\* The keys a delete request enumerates, in order.
RequestKeys(delete_request) ==
    [j \in 1..Len(delete_request.Object) |-> delete_request.Object[j].Key]

(***************************************************************************)
(* The state before the first call.                                        *)
(***************************************************************************)
\* no call of __get_auth_token was made yet
NoTokenCall ==
    [st     |-> "none",     \* "pending" in the POST, "handed" out, or "raised"
     asked  |-> 0,          \* current_time of the call
     exp0   |-> -1,         \* __expires_at when the call read it
     tok0   |-> 0,          \* __access_token when the call began
     posts  |-> 0,          \* token-exchange requests the call issued
     status |-> "none",     \* how the token endpoint answered
     body   |-> "none",
     value  |-> 0,          \* the value handed out
     at     |-> 0,          \* the time it was handed out
     exp    |-> -1]         \* __expires_at when it was handed out

\* get_bucket_keys is not running
NoListing ==
    [st                 |-> "off",      \* "token", "page", "returned"
     prefix             |-> "",         \* the prefix argument
     params             |-> [prefix |-> "absent", continuation_token |-> 0],
     all_items          |-> <<>>,
     continuation_token |-> 0,          \* 0 is None
     requests           |-> 0,          \* listing requests issued
     failure            |-> "none",     \* what the except clause caught
     ret                |-> <<>>]       \* the mapping returned

\* the caller has not got a mapping from get_bucket_keys yet
NoListed == [is |-> "None"]

\* a plausible slip: the cursor of the call before is still there
NewListing_KeptCursor(prefix) ==
    [NoListing EXCEPT !.prefix = prefix,
                      !.continuation_token = lister.continuation_token]

\* the locals of a get_bucket_keys call: no item, no cursor
NewListing(prefix) == [NoListing EXCEPT !.prefix = prefix]

\* a FileBroker after FileBroker.__init__
NotOpened ==
    /\ session = "None" /\ service = "None"
    /\ replaced = 0 /\ scope = "out"

\* a FileBroker for the default platform after __aenter__, before any call
Opened ==
    /\ platform = "ibm"
    /\ session = "open" /\ service = "IbmCloudStorage"
    /\ replaced = 0 /\ scope = "with"

\* no verb was called yet
NoArgs == [verb |-> "none"]

\* the service was not called
NoService == [method |-> "none"]

\* what a verb has returned while it runs, when it raised, and when it
\* returned None
NoValue == [is |-> "None"]

\* sync_local_files is not running
NoSync ==
    [st              |-> "off",     \* "download" in a download_files call,
                                    \* "returned"
     file_paths      |-> <<>>,      \* the arguments
     bucket_name     |-> "",
     prefix          |-> "",
     existed         |-> {},        \* the paths that existed at the call
     missing_files   |-> <<>>,
     download_groups |-> <<>>,      \* the groups not yet downloaded
     downloads       |-> <<>>,      \* the download_files calls made so far
     failed          |-> FALSE]     \* a download so far returned False

NoCaller ==
    /\ calls = 0 /\ last_token = NoTokenCall /\ carried = {}
    /\ bucket = <<>> /\ lister = NoListing
    /\ args = NoArgs /\ forwarded = NoService /\ returned = NoValue
    /\ wire = <<>> /\ disk = {} /\ written = {} /\ sync = NoSync
    /\ listed = NoListed

(***************************************************************************)
(* SpecSplit: the splitter applied to bounded key lists.                   *)
(***************************************************************************)
SplitLens ==
    {q * MaxKeysPerRequest + r : q \in 0..MaxFullBatches, r \in (0 - Slack)..Slack}
        \cap Nat

KeyList(n, p) == [i \in 1..n |-> IF p = 0 THEN i ELSE i % p]

SplitInit ==
    /\ \E n \in SplitLens, p \in 0..MaxKeyPattern : item_names = KeyList(n, p)
    /\ delete_tasks = <<>>
    /\ split_pc = "input"
    /\ now = 0 /\ expires_at = -1 /\ access_token = 0
    /\ batch_limit = 1000
    /\ pc = "idle" /\ verb = "none" /\ cbmode = "none"
    /\ tasks = <<>> /\ window = 0 /\ results = <<>> /\ overtaken = FALSE
    /\ Opened /\ NoCaller

SplitCall ==
    /\ split_pc = "input"
    /\ delete_tasks' = get_remove_items_coroutines("b", item_names, "none")
    /\ split_pc' = "done"
    /\ UNCHANGED <<item_names, cache_vars, call_vars, life_vars, caller_vars,
                   list_vars, world_vars>>

SplitNext == SplitCall

SpecSplit == SplitInit /\ [][SplitNext]_vars

(***************************************************************************)
(* BaseCloudStorage: the coroutines of upload_files and download_files.    *)
(***************************************************************************)
\* One upload_file coroutine per CloudLocalMap of cloud_map_list.
get_upload_files_coroutines(bucket_name, cloud_map_list, prefix, callback) ==
    [k \in 1..Len(cloud_map_list) |->
        [op          |-> "upload_file",
         bucket_name |-> bucket_name,
         cloud_key   |-> cloud_map_list[k].cloud_key,
         file_path   |-> cloud_map_list[k].local_filepath,
         prefix      |-> prefix,
         callback    |-> callback]]

\* One download_file coroutine per key of cloud_key_list.
get_download_files_coroutines(bucket_name, local_directory, cloud_key_list, prefix, callback) ==
    [k \in 1..Len(cloud_key_list) |->
        [op                   |-> "download_file",
         bucket_name          |-> bucket_name,
         cloud_key            |-> cloud_key_list[k],
         destination_filepath |->
             os_path_join(local_directory,
                          strip_prefix(cloud_key_list[k], prefix)),
         prefix               |-> prefix,
         callback             |-> callback]]

(***************************************************************************)
(* A coroutine object with its progress.                                   *)
(*   st: "new"    created, never awaited                                   *)
(*       "ready"  wrapped in a Task by asyncio.gather, not yet run         *)
(*       "token"  suspended in __get_auth_token's POST                     *)
(*       "io"     suspended in the storage request (PUT, GET, POST)        *)
(*       "done"   returned ret;  "raised"  ended with an exception         *)
(***************************************************************************)
NewTask(co) ==
    [co           |-> co,
     st           |-> "new",
     ret          |-> "None",    \* the value returned
     failure      |-> "none",    \* what the except clause caught
     sent         |-> 0,         \* storage requests issued
     cb_calls     |-> 0,         \* invocations of the callback
     cb_succeeded |-> "None",    \* succeeded= of the transfer callback
     cb_file_list |-> <<>>,      \* file_list of the remove callback
     answer       |-> "none"]    \* how the storage request was answered

Finished(t) == t.st \in {"done", "raised"}
InFlight(t) == t.st \in {"ready", "token", "io"}

(***************************************************************************)
(* IbmCloudStorage.upload_file / download_file: the finally clause and the *)
(* return.                                                                 *)
(***************************************************************************)
\* a plausible slip: the callback sits at the end of the try block
FinishTransfer_CallbackInTry(t, succeeded) ==
    LET called == cbmode # "none" /\ succeeded = "True"
    IN  [t EXCEPT !.cb_calls     = IF called THEN @ + 1 ELSE @,
                  !.cb_succeeded = IF called THEN succeeded ELSE @,
                  !.st           = IF called /\ cbmode = "raises"
                                   THEN "raised" ELSE "done",
                  !.ret          = IF called /\ cbmode = "raises"
                                   THEN "None" ELSE succeeded]

FinishTransfer(t, succeeded) ==
    LET called == cbmode # "none"
    IN  [t EXCEPT !.cb_calls     = IF called THEN @ + 1 ELSE @,
                  !.cb_succeeded = IF called THEN succeeded ELSE @,
                  !.st           = IF called /\ cbmode = "raises"
                                   THEN "raised" ELSE "done",
                  !.ret          = IF called /\ cbmode = "raises"
                                   THEN "None" ELSE succeeded]

(***************************************************************************)
(* IbmCloudStorage.remove_item: the finally clause and the return.         *)
(* file_list is assigned only after the response was parsed: when the try  *)
(* block failed before that, `callback(bucket_name, file_list)` raises     *)
(* UnboundLocalError while its arguments are evaluated.                    *)
(***************************************************************************)
FinishRemove(t, succeeded, bound, file_list) ==
    IF cbmode = "none"
    THEN [t EXCEPT !.st = "done", !.ret = succeeded]
    ELSE IF ~bound
    THEN [t EXCEPT !.st = "raised"]
    ELSE [t EXCEPT !.cb_calls     = @ + 1,
                   !.cb_file_list = file_list,
                   !.st           = IF cbmode = "raises" THEN "raised" ELSE "done",
                   !.ret          = IF cbmode = "raises" THEN "None" ELSE succeeded]

\* The except clause of an operation, then its finally clause.
Fail(t, why) ==
    IF t.co.op = "remove_item"
    THEN FinishRemove([t EXCEPT !.failure = why], "False", FALSE, <<>>)
    ELSE FinishTransfer([t EXCEPT !.failure = why], "False")

(***************************************************************************)
(* The bulk-delete response.  xmltodict.parse gives DeleteResult.Deleted   *)
(* as one dict when one key is reported, as a list of dicts when several   *)
(* are, and no Deleted entry at all when none is.                          *)
(***************************************************************************)
\* The keys the provider reports deleted, out of the keys requested.
Reported(keys, outcome) ==
    CASE outcome = "all"      -> keys
      [] outcome = "first"    -> SubSeq(keys, 1, 1)
      [] OTHER                -> <<>>

XmlDeleted(reported) ==
    IF Len(reported) = 0 THEN [shape |-> "absent"]
    ELSE IF Len(reported) = 1 THEN [shape |-> "dict", Key |-> reported[1]]
    ELSE [shape |-> "list",
          elems |-> [j \in 1..Len(reported) |-> [Key |-> reported[j]]]]

\* a plausible slip: the callback is handed the keys of the request
ParseDeleted_Requested(dict_response, delete_request) ==
    RequestKeys(delete_request)

\* file_list of remove_item, from xmltodict's DeleteResult.Deleted.
ParseDeleted(dict_response, delete_request) ==
    IF dict_response.shape = "dict"
    THEN <<dict_response.Key>>
    ELSE [j \in 1..Len(dict_response.elems) |-> dict_response.elems[j].Key]

(***************************************************************************)
(* An operation from the token it obtained to its next suspension.         *)
(***************************************************************************)
AfterToken(t, file_ok) ==
    IF t.co.op = "upload_file" /\ ~file_ok
    THEN Fail(t, "open")            \* open(file_path, "rb") raised
    ELSE IF session = "closed"
    THEN Fail(t, "net")             \* aiohttp: RuntimeError("Session is closed")
    ELSE [t EXCEPT !.st = "io", !.sent = @ + 1]

\* whether open(file_path, "rb") succeeds; only upload_file opens a file
\* before its request
FileOutcomes(op) == IF op = "upload_file" THEN BOOLEAN ELSE {TRUE}

IoOutcomes(op) ==
    CASE op = "upload_file"   -> {"ok", "http_error", "net_error"}
      [] op = "download_file" -> {"ok", "http_error", "net_error",
                                  "open_fail", "read_fail"}
      [] op = "remove_item"   -> {"all", "first", "no_deleted", "net_error"}

\* An operation from the answer to its storage request to its end.
\* aiohttp raises for a failed connection only: a non-success status is an
\* answer like any other.
AfterIo(t0, outcome) ==
    LET t == [t0 EXCEPT !.answer = outcome] IN
    CASE t.co.op = "upload_file" ->
            IF outcome = "net_error" THEN Fail(t, "net")
            ELSE FinishTransfer(t, "True")
      [] t.co.op = "download_file" ->
            IF outcome \in {"ok", "http_error"} THEN FinishTransfer(t, "True")
            ELSE Fail(t, IF outcome = "net_error" THEN "net" ELSE "file")
      [] t.co.op = "remove_item" ->
            LET reported == Reported(RequestKeys(t.co.delete_request), outcome)
                body     == XmlDeleted(reported)
            IN  IF outcome = "net_error" THEN Fail(t, "net")
                ELSE IF body.shape = "absent" THEN Fail(t, "parse")
                ELSE FinishRemove(t, "True", TRUE,
                                  ParseDeleted(body, t.co.delete_request))

(***************************************************************************)
(* IbmCloudStorage.__get_auth_token                                        *)
(***************************************************************************)
TokenOutcomes == {"ok", "net_error", "no_expiration", "no_access_token"}

\* the times the clock may show when it is read next
Times == now..MaxTime

\* a plausible slip: the token is exchanged on every call
NeedsRefresh_Always(current_time) == TRUE

\* a plausible slip: a token is still used at the second it expires
NeedsRefresh_Strict(current_time) == current_time > expires_at

NeedsRefresh(current_time) == current_time >= expires_at

\* __expires_at after the token-exchange response, issued at current_time,
\* was read
ExpiresAtAfter(outcome, current_time) ==
    IF outcome \in {"ok", "no_access_token"}
    THEN current_time + TokenTTL ELSE expires_at

\* a plausible slip: a token in the cache is not replaced
AccessTokenAfter_FirstWins(outcome, token) ==
    IF outcome = "ok" /\ access_token = 0 THEN token ELSE access_token

\* __access_token after the token-exchange response, which carries the
\* value token if it carries one, was read
AccessTokenAfter(outcome, token) ==
    IF outcome = "ok" THEN token ELSE access_token

(***************************************************************************)
(* FileBroker.__gather_results                                             *)
(***************************************************************************)
\* a plausible slip: the slice has no upper end
WindowEnd_Open(ts, i) == Len(ts)

\* ts[i : i + batch_limit] is ts[i+1 .. WindowEnd(ts, i)], counted from 1
WindowEnd(ts, i) == Min(i + batch_limit, Len(ts))

InWindow(k, i) == k > i /\ k <= WindowEnd(tasks, i)

\* asyncio.gather(*ts[i : i + batch_limit]) wraps each coroutine in a Task
Gathered(ts, i) ==
    [k \in 1..Len(ts) |->
        IF k > i /\ k <= WindowEnd(ts, i)
        THEN [ts[k] EXCEPT !.st = "ready"] ELSE ts[k]]

\* a plausible slip: the caller goes on as soon as one operation is done
WindowComplete_Any(i) ==
    \E k \in 1..Len(tasks) : InWindow(k, i) /\ tasks[k].st = "done"

\* the gather future has its result: every operation of the window returned
WindowComplete(i) ==
    \A k \in 1..Len(tasks) : InWindow(k, i) => tasks[k].st = "done"

\* the gather future has an exception: one operation of the window raised
WindowFailed(i) ==
    \E k \in 1..Len(tasks) : InWindow(k, i) /\ tasks[k].st = "raised"

\* the event loop runs the Tasks gather created before it handles any answer
NoneReady == \A k \in 1..Len(tasks) : tasks[k].st # "ready"

\* operation i ended while an earlier operation of its window is in flight
Overtakes(ts, i) ==
    /\ Finished(ts[i])
    /\ \E j \in 1..(i - 1) : InFlight(ts[j]) /\ InWindow(j, window) /\ InWindow(i, window)

(***************************************************************************)
(* Spec: one verb call on an open broker.                                  *)
(***************************************************************************)
Verbs == {"upload_files", "download_files", "remove_items"}

\* the keys of a remove_items call that makes n bulk-delete requests
RemoveKeys(n) ==
    IF n = 0 THEN <<>> ELSE KeyList((n - 1) * MaxKeysPerRequest + 1, 0)

\* the arguments of a call that makes n operations: bucket "b", no prefix,
\* the items "k1", "k2", ... (for remove_items the keys 1, 2, ...)
CallArgs(v, cb, n) ==
    CASE v = "upload_files" ->
            [verb           |-> v,
             bucket_name    |-> "b",
             cloud_map_list |->
                 [k \in 1..n |-> [cloud_key      |-> "k" \o ToString(k),
                                  local_filepath |-> "f" \o ToString(k)]],
             prefix         |-> "",
             callback       |-> cb]
      [] v = "download_files" ->
            [verb            |-> v,
             bucket_name     |-> "b",
             local_directory |-> "d",
             file_names      |-> [k \in 1..n |-> "k" \o ToString(k)],
             prefix          |-> "",
             callback        |-> cb]
      [] v = "remove_items" ->
            [verb        |-> v,
             bucket_name |-> "b",
             cloud_keys  |-> RemoveKeys(n),
             callback    |-> cb]

\* a plausible slip: download_files does not pass the prefix on
ServiceCall_NoPrefix(a) ==
    CASE a.verb = "upload_files" ->
            [method         |-> "get_upload_files_coroutines",
             bucket_name    |-> a.bucket_name,
             cloud_map_list |-> a.cloud_map_list,
             prefix         |-> a.prefix,
             callback       |-> a.callback]
      [] a.verb = "download_files" ->
            [method          |-> "get_download_files_coroutines",
             bucket_name     |-> a.bucket_name,
             local_directory |-> a.local_directory,
             cloud_key_list  |-> a.file_names,
             prefix          |-> "",
             callback        |-> a.callback]
      [] a.verb = "remove_items" ->
            [method      |-> "get_remove_items_coroutines",
             bucket_name |-> a.bucket_name,
             item_names  |-> a.cloud_keys,
             callback    |-> a.callback]

\* upload_files, download_files, remove_items: the method of the service the
\* verb calls and the arguments it passes, under the names of the method's
\* parameters
ServiceCall(a) ==
    CASE a.verb = "upload_files" ->
            [method         |-> "get_upload_files_coroutines",
             bucket_name    |-> a.bucket_name,
             cloud_map_list |-> a.cloud_map_list,
             prefix         |-> a.prefix,
             callback       |-> a.callback]
      [] a.verb = "download_files" ->
            [method          |-> "get_download_files_coroutines",
             bucket_name     |-> a.bucket_name,
             local_directory |-> a.local_directory,
             cloud_key_list  |-> a.file_names,
             prefix          |-> a.prefix,
             callback        |-> a.callback]
      [] a.verb = "remove_items" ->
            [method      |-> "get_remove_items_coroutines",
             bucket_name |-> a.bucket_name,
             item_names  |-> a.cloud_keys,
             callback    |-> a.callback]

\* the parameters of a verb, self aside
Parameters(v) ==
    CASE v = "get_bucket_keys" -> {"bucket_name", "prefix"}
      [] v = "upload_files" ->
            {"bucket_name", "cloud_map_list", "prefix", "callback"}
      [] v = "download_files" ->
            {"bucket_name", "local_directory", "file_names", "prefix",
             "callback"}
      [] v = "remove_items" -> {"bucket_name", "cloud_keys", "callback"}

\* Python binds the arguments of a call to the parameters of the verb; an
\* argument more than the verb has parameters is a TypeError
Accepts(a) == (DOMAIN a) \ {"verb"} \subseteq Parameters(a.verb)

\* the service carrying out the call c of the broker
ServiceCoroutines(c) ==
    CASE c.method = "get_upload_files_coroutines" ->
            get_upload_files_coroutines(
                c.bucket_name, c.cloud_map_list, c.prefix, c.callback)
      [] c.method = "get_download_files_coroutines" ->
            get_download_files_coroutines(
                c.bucket_name, c.local_directory, c.cloud_key_list, c.prefix,
                c.callback)
      [] c.method = "get_remove_items_coroutines" ->
            get_remove_items_coroutines(c.bucket_name, c.item_names, c.callback)

MaxOpsOf(v) ==
    CASE v = "remove_items"   -> MaxRemoveOps
      [] v = "download_files" -> MaxDownloadOps
      [] OTHER                -> MaxOps

Init ==
    /\ item_names = <<>> /\ delete_tasks = <<>> /\ split_pc = "off"
    /\ now = 0 /\ expires_at = -1 /\ access_token = 0
    /\ batch_limit \in -1..MaxBatchLimit
    /\ pc = "idle" /\ verb = "none" /\ cbmode = "none"
    /\ tasks = <<>> /\ window = 0 /\ results = <<>> /\ overtaken = FALSE
    /\ Opened /\ NoCaller

\* upload_files, download_files or remove_items, called with the
\* arguments a, up to the first await of __gather_results
Enter(a) ==
    LET cos == IF service = "None" THEN <<>>
               ELSE ServiceCoroutines(ServiceCall(a))
        ts  == [k \in 1..Len(cos) |-> NewTask(cos[k])]
    IN  /\ verb' = a.verb /\ args' = a /\ cbmode' = a.callback
        /\ forwarded' = IF service = "None" THEN NoService ELSE ServiceCall(a)
        /\ returned' = NoValue         \* these verbs have no return statement
        /\ results' = <<>> /\ overtaken' = FALSE /\ window' = 0
        /\ IF service = "None"
           THEN pc' = "raised" /\ tasks' = <<>>    \* None.get_..._coroutines:
                                                  \* AttributeError
           ELSE IF batch_limit = 0
           THEN pc' = "raised" /\ tasks' = ts      \* range() step 0: ValueError
           ELSE IF batch_limit < 0 \/ Len(ts) = 0
           THEN pc' = "returned" /\ tasks' = ts    \* the range is empty
           ELSE /\ pc' = "gather"
                /\ tasks' = Gathered(ts, 0)
        /\ UNCHANGED <<split_vars, life_vars, cache_vars, batch_limit>>

\* a call the verb's signature does not accept: TypeError before the body of
\* the verb runs
Rejected(a) ==
    /\ verb' = a.verb /\ args' = a /\ cbmode' = "none"
    /\ forwarded' = NoService /\ returned' = NoValue
    /\ pc' = "raised" /\ tasks' = <<>>
    /\ results' = <<>> /\ overtaken' = FALSE /\ window' = 0
    /\ UNCHANGED <<split_vars, life_vars, cache_vars, batch_limit>>

\* ... called by a caller that is at rest
Call(a) == pc = "idle" /\ IF Accepts(a) THEN Enter(a) ELSE Rejected(a)

\* ... called for n items
CallVerb(v, cb, n) == Call(CallArgs(v, cb, n))

\* the first step of a Task: the operation up to its first suspension
StartOp(i, current_time, file_ok) ==
    /\ tasks[i].st = "ready"
    /\ \A j \in 1..(i - 1) : tasks[j].st # "ready"
    /\ now' = current_time
    /\ tasks' = [tasks EXCEPT ![i] =
                    IF NeedsRefresh(current_time)
                    THEN IF session = "closed"
                         THEN Fail(@, "token")  \* RuntimeError("Session is closed")
                         ELSE [@ EXCEPT !.st = "token"]
                    ELSE AfterToken(@, file_ok)]
    /\ overtaken' = (overtaken \/ Overtakes(tasks', i))
    /\ UNCHANGED <<split_vars, life_vars, expires_at, access_token, batch_limit, pc, verb,
                   args, forwarded, returned, cbmode, window, results>>

\* the answer to the token-exchange POST of operation i; a response that
\* has an access_token field carries the value token
TokenResp(i, current_time, outcome, token, file_ok) ==
    /\ tasks[i].st = "token"
    /\ NoneReady
    /\ now' = current_time
    /\ expires_at' = ExpiresAtAfter(outcome, current_time)
    /\ access_token' = AccessTokenAfter(outcome, token)
    /\ tasks' = [tasks EXCEPT ![i] =
                    IF outcome = "ok" THEN AfterToken(@, file_ok)
                    ELSE Fail(@, "token")]
    /\ overtaken' = (overtaken \/ Overtakes(tasks', i))
    /\ UNCHANGED <<split_vars, life_vars, batch_limit, pc, verb, args, forwarded,
                   returned, cbmode, window,
                   results>>

\* the answer to the storage request of operation i
IoResp(i, outcome) ==
    /\ tasks[i].st = "io"
    /\ NoneReady
    /\ outcome \in IoOutcomes(tasks[i].co.op)
    /\ tasks' = [tasks EXCEPT ![i] = AfterIo(@, outcome)]
    /\ overtaken' = (overtaken \/ Overtakes(tasks', i))
    /\ UNCHANGED <<split_vars, life_vars, cache_vars, batch_limit, pc, verb, args,
                   forwarded, returned,
                   cbmode, window, results>>

\* `results += await asyncio.gather(...)` got its list: next window or return
WindowDone ==
    /\ pc = "gather"
    /\ NoneReady
    /\ WindowComplete(window)
    /\ results' = results \o
                  [k \in 1..(WindowEnd(tasks, window) - window) |->
                      tasks[window + k].ret]
    /\ IF window + batch_limit < Len(tasks)
       THEN /\ window' = window + batch_limit
            /\ tasks' = Gathered(tasks, window + batch_limit)
            /\ pc' = "gather"
       ELSE /\ pc' = "returned"
            /\ UNCHANGED <<window, tasks>>
    /\ UNCHANGED <<split_vars, life_vars, cache_vars, batch_limit, verb, args,
                   forwarded, returned, cbmode,
                   overtaken>>

\* the await got the exception of an operation: the verb raises it
WindowRaise ==
    /\ pc = "gather"
    /\ NoneReady
    /\ WindowFailed(window)
    /\ pc' = "raised"
    /\ UNCHANGED <<split_vars, life_vars, cache_vars, batch_limit, verb, args,
                   forwarded, returned, cbmode,
                   tasks, window, results, overtaken>>

\* the token endpoint answers each request of one call with a token of its
\* own: the response to operation i carries the value i
Next ==
    \/ /\ \E v \in Verbs, cb \in {"none", "ok", "raises"} :
              \E n \in 0..MaxOpsOf(v) : CallVerb(v, cb, n)
       /\ UNCHANGED <<caller_vars, list_vars, world_vars>>
    \/ /\ \E i \in 1..Len(tasks), current_time \in Times :
              \E file_ok \in FileOutcomes(tasks[i].co.op) :
                  StartOp(i, current_time, file_ok)
       /\ UNCHANGED <<caller_vars, list_vars, world_vars>>
    \/ /\ \E i \in 1..Len(tasks), current_time \in Times, outcome \in TokenOutcomes :
              \E file_ok \in FileOutcomes(tasks[i].co.op) :
                  TokenResp(i, current_time, outcome, i, file_ok)
       /\ UNCHANGED <<caller_vars, list_vars, world_vars>>
    \/ /\ \E i \in 1..Len(tasks) :
              \E outcome \in IoOutcomes(tasks[i].co.op) : IoResp(i, outcome)
       /\ UNCHANGED <<caller_vars, list_vars, world_vars>>
    \/ WindowDone /\ UNCHANGED <<caller_vars, list_vars, world_vars>>
    \/ WindowRaise /\ UNCHANGED <<caller_vars, list_vars, world_vars>>

Spec == Init /\ [][Next]_vars

(***************************************************************************)
(* The storage request of an operation, sent with the token that           *)
(* __get_auth_token handed to it.                                          *)
(***************************************************************************)
\* a plausible slip: the prefix is left out of the destination key
UploadKey_NoPrefix(cloud_key, prefix) == cloud_key

\* upload_file: `if prefix: cloud_key = f"{prefix}{cloud_key}"`
UploadKey(cloud_key, prefix) ==
    IF prefix # "" THEN prefix \o cloud_key ELSE cloud_key

\* a plausible slip: the body names the first key of the batch only
xml_body_FirstOnly(delete_request) ==
    [Delete |-> <<[Object |-> [Key |-> delete_request.Object[1].Key]]>>]

\* xmltodict.unparse({"Delete": delete_request}): a Delete element with
\* one Object element per item of the list, each with its Key
xml_body(delete_request) ==
    [Delete |-> [j \in 1..Len(delete_request.Object) |->
                    [Object |-> [Key |-> delete_request.Object[j].Key]]]]

\* the request of operation i, a coroutine co, with the token access_token
Request(i, co, token) ==
    CASE co.op = "upload_file" ->
            [task   |-> i,
             method |-> "PUT",
             url    |-> "cos/" \o co.bucket_name \o "/"
                            \o UploadKey(co.cloud_key, co.prefix),
             bearer |-> token,
             data   |-> co.file_path]
      [] co.op = "download_file" ->
            [task   |-> i,
             method |-> "GET",
             url    |-> "cos/" \o co.bucket_name \o "/" \o co.cloud_key,
             bearer |-> token,
             data   |-> "none"]
      [] co.op = "remove_item" ->
            [task   |-> i,
             method |-> "POST",
             url    |-> "cos/" \o co.bucket_name \o "?delete=",
             bearer |-> token,
             data   |-> xml_body(co.delete_request)]

\* what the step of operation i put on the wire
Sent(i) ==
    IF tasks'[i].sent > tasks[i].sent
    THEN <<Request(i, tasks[i].co, access_token')>>
    ELSE <<>>

\* download_file opens its destination "wb" when the GET was answered,
\* before it reads the body: the paths the step of operation i opened
OpenedForWriting(i, outcome) ==
    IF tasks[i].co.op = "download_file"
           /\ outcome \in {"ok", "http_error", "read_fail"}
    THEN {tasks[i].co.destination_filepath}
    ELSE {}

(***************************************************************************)
(* SpecVerbs: one verb call, with its arguments, on an open broker whose   *)
(* configuration has batch_limit 2; what goes on the wire is recorded.     *)
(***************************************************************************)
VerbsPrefixes == {"", "p"}

VerbsKeys == {"a", "pa"}

VerbsMaps ==
    {[cloud_key |-> "a",  local_filepath |-> "x/a"],
     [cloud_key |-> "pa", local_filepath |-> "y"]}

\* the key lists of remove_items: none, one batch, two, three
VerbsRemoveLens == {0, 1, 1000, 1001, 2001}

SeqsUpTo(S, n) == UNION {[1..m -> S] : m \in 0..n}

VerbsArgs ==
    {[verb |-> "upload_files", bucket_name |-> "b", cloud_map_list |-> l,
      prefix |-> x, callback |-> cb] :
        l \in SeqsUpTo(VerbsMaps, MaxItems), x \in VerbsPrefixes,
        cb \in {"none", "ok"}}
    \cup
    {[verb |-> "download_files", bucket_name |-> "b", local_directory |-> "d",
      file_names |-> l, prefix |-> x, callback |-> cb] :
        l \in SeqsUpTo(VerbsKeys, MaxItems), x \in VerbsPrefixes,
        cb \in {"none", "ok"}}
    \cup
    {[verb |-> "remove_items", bucket_name |-> "b",
      cloud_keys |-> KeyList(n, 0), callback |-> cb] :
        n \in VerbsRemoveLens, cb \in {"none", "ok"}}
    \cup
    {[verb |-> "remove_items", bucket_name |-> "b",
      cloud_keys |-> KeyList(1, 0), prefix |-> "", callback |-> "none"]}

VerbsInit ==
    /\ item_names = <<>> /\ delete_tasks = <<>> /\ split_pc = "off"
    /\ now = 0 /\ expires_at = -1 /\ access_token = 0
    /\ batch_limit = 2
    /\ pc = "idle" /\ verb = "none" /\ cbmode = "none"
    /\ tasks = <<>> /\ window = 0 /\ results = <<>> /\ overtaken = FALSE
    /\ Opened /\ NoCaller

VerbsCall ==
    /\ pc = "idle"
    /\ \E a \in VerbsArgs : Call(a)
    /\ UNCHANGED <<caller_vars, list_vars, world_vars>>

VerbsStartOp ==
    /\ pc = "gather"
    /\ \E i \in 1..Len(tasks), current_time \in Times :
          /\ \E file_ok \in FileOutcomes(tasks[i].co.op) :
                 StartOp(i, current_time, file_ok)
          /\ wire' = wire \o Sent(i)
    /\ UNCHANGED <<caller_vars, list_vars, disk, written, sync, listed>>

VerbsTokenResp ==
    /\ pc = "gather"
    /\ \E i \in 1..Len(tasks), current_time \in Times, outcome \in TokenOutcomes :
          /\ \E file_ok \in FileOutcomes(tasks[i].co.op) :
                 TokenResp(i, current_time, outcome, i, file_ok)
          /\ wire' = wire \o Sent(i)
    /\ UNCHANGED <<caller_vars, list_vars, disk, written, sync, listed>>

VerbsIoResp ==
    /\ pc = "gather"
    /\ \E i \in 1..Len(tasks) :
          \E outcome \in IoOutcomes(tasks[i].co.op) :
              /\ IoResp(i, outcome)
              /\ written' = written \cup OpenedForWriting(i, outcome)
              /\ disk' = disk \cup OpenedForWriting(i, outcome)
    /\ UNCHANGED <<caller_vars, list_vars, wire, sync, listed>>

VerbsWindowDone == WindowDone /\ UNCHANGED <<caller_vars, list_vars, world_vars>>

VerbsWindowRaise == WindowRaise /\ UNCHANGED <<caller_vars, list_vars, world_vars>>


(***************************************************************************)
(* IbmCloudStorage.get_bucket_keys                                         *)
(***************************************************************************)
Prefixes == {"", "a", " a"}

\* str.strip
strip(prefix) == IF prefix = " a" THEN "a" ELSE prefix

\* params of the first listing request
FirstParams(prefix) ==
    IF prefix # ""
    THEN [prefix |-> strip(prefix), continuation_token |-> 0]
    ELSE [prefix |-> "absent", continuation_token |-> 0]

\* a plausible slip: the cursor is not put into the params
NextParams_NoCursor(prefix, continuation_token) ==
    [prefix |-> prefix, continuation_token |-> 0]

\* params of a request that continues a listing
NextParams(prefix, continuation_token) ==
    [prefix |-> prefix, continuation_token |-> continuation_token]

\* The provider: page p of a listing served as the chain pages.  Page p
\* carries the cursor p + 1 while another page follows; an item's
\* LastModified tells the page it was served in.
PageItems(pages, p) ==
    [j \in 1..Len(pages[p]) |->
        [Key |-> pages[p][j], LastModified |-> p, Size |-> pages[p][j]]]

\* xmltodict.parse gives Contents as one dict for one item, as a list of
\* dicts for several, and no Contents entry at all for none.
XmlContents(items) ==
    IF Len(items) = 0 THEN [shape |-> "absent"]
    ELSE IF Len(items) = 1 THEN [shape |-> "dict", item |-> items[1]]
    ELSE [shape |-> "list", elems |-> items]

ListBucketResult(pages, p) ==
    [Contents              |-> XmlContents(PageItems(pages, p)),
     IsTruncated           |-> IF p < Len(pages) THEN "true" ELSE "false",
     NextContinuationToken |-> IF p < Len(pages) THEN p + 1 ELSE 0]

\* the page a request asks for: the first one without a cursor
PageAsked(params) ==
    IF params.continuation_token = 0 THEN 1 ELSE params.continuation_token

BucketKeyMetadata(item) ==
    [last_modified |-> item.LastModified, bytes |-> item.Size]

\* a plausible slip: a Contents that is not a list is passed over
ParseContents_ListOnly(contents) ==
    IF contents.shape = "dict"
    THEN <<>>
    ELSE LET elems == contents.elems
             keys  == {elems[j].Key : j \in 1..Len(elems)}
             last(k) == CHOOSE j \in 1..Len(elems) :
                            /\ elems[j].Key = k
                            /\ \A h \in (j + 1)..Len(elems) : elems[h].Key # k
         IN  [k \in keys |-> BucketKeyMetadata(elems[last(k)])]

\* items of one page, from response_dict["Contents"]: `"Key" in` it tells
\* the single dict from the list; in a dict comprehension the last item of
\* a key stays
ParseContents(contents) ==
    IF contents.shape = "dict"
    THEN [k \in {contents.item.Key} |-> BucketKeyMetadata(contents.item)]
    ELSE LET elems == contents.elems
             keys  == {elems[j].Key : j \in 1..Len(elems)}
             last(k) == CHOOSE j \in 1..Len(elems) :
                            /\ elems[j].Key = k
                            /\ \A h \in (j + 1)..Len(elems) : elems[h].Key # k
         IN  [k \in keys |-> BucketKeyMetadata(elems[last(k)])]

\* a plausible slip: the page's items replace what was gathered
update_Replace(all_items, items) == items

\* a plausible slip: a key that is there already keeps what it has
update_KeepFirst(all_items, items) ==
    [k \in (DOMAIN all_items) \cup (DOMAIN items) |->
        IF k \in DOMAIN all_items THEN all_items[k] ELSE items[k]]

\* all_items.update(items)
update(all_items, items) ==
    [k \in (DOMAIN all_items) \cup (DOMAIN items) |->
        IF k \in DOMAIN items THEN items[k] ELSE all_items[k]]

\* a plausible slip: the except clause returns what was gathered so far
ListFailed_Partial(l, why) ==
    [l EXCEPT !.st = "returned", !.failure = why, !.ret = l.all_items]

\* a plausible slip: a page that does not parse ends the loop, and only a
\* failed request returns {}
ListFailed_ParsedSoFar(l, why) ==
    [l EXCEPT !.st = "returned", !.failure = why,
              !.ret = IF why = "parse" THEN l.all_items ELSE <<>>]

\* the except clause of get_bucket_keys: `return {}`
ListFailed(l, why) ==
    [l EXCEPT !.st = "returned", !.failure = why, !.ret = <<>>]

\* get_bucket_keys from the token it obtained to the first listing request:
\* the params built before the loop, replaced at the top of the loop when
\* there is a cursor
ListAfterToken(l) ==
    IF session = "closed"
    THEN ListFailed(l, "net")       \* RuntimeError("Session is closed")
    ELSE [l EXCEPT !.st = "page",
                   !.params = IF l.continuation_token # 0
                              THEN NextParams(l.prefix, l.continuation_token)
                              ELSE FirstParams(l.prefix),
                   !.requests = @ + 1]

\* one turn of `while is_truncated` on the parsed page response_dict
ListAfterPage(l, response_dict) ==
    LET all_items == IF response_dict.Contents.shape # "absent"
                     THEN update(l.all_items, ParseContents(response_dict.Contents))
                     ELSE l.all_items
        is_truncated == response_dict.IsTruncated = "true"
        continuation_token == IF is_truncated
                              THEN response_dict.NextContinuationToken
                              ELSE l.continuation_token
    IN  IF is_truncated
        THEN [l EXCEPT !.all_items = all_items,
                       !.continuation_token = continuation_token,
                       !.params = IF continuation_token # 0
                                  THEN NextParams(l.prefix, continuation_token)
                                  ELSE @,
                       !.requests = @ + 1]
        ELSE [l EXCEPT !.all_items = all_items,
                       !.st = "returned",
                       !.ret = all_items]

PageOutcomes == {"ok", "net_error", "malformed"}

\* FileBroker.get_bucket_keys:
\* `return await self.service.get_bucket_keys(bucket_name, prefix)`
BrokerReturn(l) ==
    IF l.st = "returned" THEN [is |-> "value", value |-> l.ret] ELSE NoValue

\* FileBroker.get_bucket_keys up to its first suspension
ListCall(prefix, pages, current_time) ==
    /\ pc = "idle"
    /\ verb' = "get_bucket_keys" /\ cbmode' = "none"
    /\ args' = [verb |-> "get_bucket_keys", bucket_name |-> "b", prefix |-> prefix]
    /\ tasks' = <<>> /\ results' = <<>> /\ overtaken' = FALSE /\ window' = 0
    /\ bucket' = pages
    /\ IF service = "None"
       THEN /\ pc' = "raised"       \* None.get_bucket_keys: AttributeError
            /\ lister' = NewListing(prefix)
            /\ forwarded' = NoService /\ returned' = NoValue
            /\ now' = now
       ELSE LET l == NewListing(prefix) IN
            /\ now' = current_time
            /\ lister' = IF NeedsRefresh(current_time)
                         THEN IF session = "closed"
                              THEN ListFailed(l, "token")
                              ELSE [l EXCEPT !.st = "token"]
                         ELSE ListAfterToken(l)
            /\ pc' = IF lister'.st = "returned" THEN "returned" ELSE "listing"
            /\ forwarded' = [method      |-> "get_bucket_keys",
                             bucket_name |-> "b",
                             prefix      |-> prefix]
            /\ returned' = BrokerReturn(lister')
    /\ UNCHANGED <<split_vars, life_vars, expires_at, access_token, batch_limit>>

\* the answer to the token-exchange POST of get_bucket_keys
ListTokenResp(current_time, outcome, token) ==
    /\ pc = "listing" /\ lister.st = "token"
    /\ now' = current_time
    /\ expires_at' = ExpiresAtAfter(outcome, current_time)
    /\ access_token' = AccessTokenAfter(outcome, token)
    /\ lister' = IF outcome = "ok" THEN ListAfterToken(lister)
                 ELSE ListFailed(lister, "token")
    /\ pc' = IF lister'.st = "returned" THEN "returned" ELSE "listing"
    /\ returned' = BrokerReturn(lister')
    /\ UNCHANGED <<split_vars, life_vars, bucket, batch_limit, verb, args,
                   forwarded, cbmode, tasks, window, results, overtaken>>

\* the answer to a listing request arrives when the clock shows
\* current_time (get_bucket_keys does not read it): the turn of the loop
\* that follows issues the next request, or the call returns
ListPageAnswered(current_time, outcome) ==
    /\ pc = "listing" /\ lister.st = "page"
    /\ now' = current_time
    /\ lister' = CASE outcome = "ok" ->
                        ListAfterPage(lister,
                            ListBucketResult(bucket, PageAsked(lister.params)))
                   [] outcome = "net_error" -> ListFailed(lister, "net")
                   [] outcome = "malformed" -> ListFailed(lister, "parse")
    /\ pc' = IF lister'.st = "returned" THEN "returned" ELSE "listing"
    /\ returned' = BrokerReturn(lister')
    /\ UNCHANGED <<split_vars, life_vars, expires_at, access_token, bucket,
                   batch_limit, verb, args, forwarded, cbmode, tasks, window,
                   results, overtaken>>

\* ... with no time gone by since the clock was read last
ListPageResp(outcome) == ListPageAnswered(now, outcome)

(***************************************************************************)
(* SpecList: one get_bucket_keys call on an open broker.                   *)
(***************************************************************************)
PageKeys(lo, hi) == [j \in 1..(hi - lo + 1) |-> lo + j - 1]

\* a page holds the keys lo..hi, or none
PageChoices ==
    {PageKeys(lo, hi) : lo \in 1..MaxListKeys, hi \in 0..MaxListKeys}

PageChains == UNION {[1..n -> PageChoices] : n \in 1..MaxPages}

ListInit ==
    /\ item_names = <<>> /\ delete_tasks = <<>> /\ split_pc = "off"
    /\ now = 0 /\ expires_at = -1 /\ access_token = 0
    /\ batch_limit = 1000
    /\ pc = "idle" /\ verb = "none" /\ cbmode = "none"
    /\ tasks = <<>> /\ window = 0 /\ results = <<>> /\ overtaken = FALSE
    /\ Opened /\ NoCaller

ListNext ==
    \/ /\ pc = "idle"
       /\ \E prefix \in Prefixes, pages \in PageChains, current_time \in Times :
              ListCall(prefix, pages, current_time)
       /\ UNCHANGED <<caller_vars, world_vars>>
    \/ /\ \E current_time \in Times, outcome \in TokenOutcomes :
              ListTokenResp(current_time, outcome, 1)
       /\ UNCHANGED <<caller_vars, world_vars>>
    \/ /\ \E outcome \in PageOutcomes : ListPageResp(outcome)
       /\ UNCHANGED <<caller_vars, world_vars>>

SpecList == ListInit /\ [][ListNext]_vars

(***************************************************************************)
(* SpecListFair: one get_bucket_keys call whose requests are all answered  *)
(* or fail, so that no await of the call hangs for ever.  A page holds no  *)
(* key, one key or two: the three shapes of Contents.                      *)
(***************************************************************************)
FairPageChoices == {<<>>, <<1>>, <<1, 2>>}

FairChains == UNION {[1..n -> FairPageChoices] : n \in 1..MaxPages}

FairCall ==
    /\ pc = "idle"
    /\ \E prefix \in Prefixes, pages \in FairChains, current_time \in Times :
          ListCall(prefix, pages, current_time)
    /\ UNCHANGED <<caller_vars, world_vars>>

FairTokenResp ==
    /\ \E current_time \in Times, outcome \in TokenOutcomes :
          ListTokenResp(current_time, outcome, 1)
    /\ UNCHANGED <<caller_vars, world_vars>>

FairPageResp ==
    /\ \E outcome \in PageOutcomes : ListPageResp(outcome)
    /\ UNCHANGED <<caller_vars, world_vars>>

FairNext ==
    \/ FairCall
    \/ FairTokenResp
    \/ FairPageResp

SpecListFair == ListInit /\ [][FairNext]_vars /\ WF_vars(FairNext)

(***************************************************************************)
(* SpecTwice: a caller that calls get_bucket_keys, looks at the mapping,   *)
(* and calls it again, on the same bucket or on one that has changed.  The *)
(* token endpoint answers the request of the n-th call with the value n.   *)
(***************************************************************************)
TwiceListings == {<<<<1, 2>>, <<3>>>>, <<<<1>>, <<2, 3>>>>}

TwicePrefixes == {"", "a"}

TwiceInit == ListInit

\* the first call, and the calls after it: on the pages of the call before
\* or on another listing
TwiceCall ==
    /\ pc = "idle" /\ calls < MaxListCalls
    /\ \E prefix \in TwicePrefixes, pages \in TwiceListings :
          \E current_time \in Times : ListCall(prefix, pages, current_time)
    /\ calls' = calls + 1
    /\ UNCHANGED <<last_token, carried, world_vars>>

TwiceTokenResp ==
    /\ \E current_time \in Times, outcome \in TokenOutcomes :
          ListTokenResp(current_time, outcome, calls)
    /\ UNCHANGED <<caller_vars, world_vars>>

TwicePageResp ==
    /\ \E outcome \in PageOutcomes : ListPageResp(outcome)
    /\ UNCHANGED <<caller_vars, world_vars>>

\* the caller keeps the mapping and goes on to its next call
TwiceResume ==
    /\ pc = "returned"
    /\ pc' = "idle"
    /\ listed' = [is          |-> "value",
                  bucket_name |-> args.bucket_name,
                  prefix      |-> args.prefix,
                  bucket      |-> bucket,
                  failure     |-> lister.failure,
                  value       |-> returned.value]
    /\ UNCHANGED <<split_vars, cache_vars, life_vars, batch_limit, verb, args,
                   forwarded, returned, cbmode, tasks, window, results,
                   overtaken, caller_vars, list_vars, wire, disk, written, sync>>

TwiceNext ==
    \/ TwiceCall
    \/ TwiceTokenResp
    \/ TwicePageResp
    \/ TwiceResume

SpecTwice == TwiceInit /\ [][TwiceNext]_vars

(***************************************************************************)
(* The token endpoint, as a sequential caller sees it.                     *)
(***************************************************************************)
TokenStatuses == {"success", "non_success"}

\* the JSON body: both fields, one of them missing, or no JSON at all
TokenBodies == {"full", "no_expiration", "no_access_token", "not_json"}

TokenAnswers ==
    [status : TokenStatuses, body : TokenBodies]
        \cup {[status |-> "unreachable", body |-> "none"]}

\* What __get_auth_token makes of an answer.  It never looks at the status;
\* a failed connection and a body that is no JSON raise before a field is
\* read.
TokenOutcome(answer) ==
    CASE answer.status = "unreachable"    -> "net_error"
      [] answer.body = "not_json"         -> "net_error"
      [] answer.body = "no_expiration"    -> "no_expiration"
      [] answer.body = "no_access_token"  -> "no_access_token"
      [] OTHER                            -> "ok"

\* the pair a response with both fields carries when it lands at current_time
\* with the access_token value token
Carried(answer, token, current_time) ==
    IF answer.body = "full" THEN {<<token, current_time + TokenTTL>>} ELSE {}

\* The call of __get_auth_token made at current_time, as observed from what
\* became of its caller: st_after is "pending" when the caller is suspended
\* in the POST, "raised" when the call raised, "handed" when it returned.
TokenCalled(current_time, st_after) ==
    [NoTokenCall EXCEPT
        !.st    = st_after,
        !.asked = current_time,
        !.exp0  = expires_at,
        !.tok0  = access_token,
        !.posts = IF st_after = "pending" THEN 1 ELSE 0,
        !.value = IF st_after = "handed" THEN access_token' ELSE 0,
        !.at    = current_time,
        !.exp   = expires_at']

\* ... and the same call when the answer to its POST has landed
TokenAnswered(current_time, answer, st_after) ==
    [last_token EXCEPT
        !.st     = st_after,
        !.status = answer.status,
        !.body   = answer.body,
        !.value  = IF st_after = "handed" THEN access_token' ELSE 0,
        !.at     = current_time,
        !.exp    = expires_at']

\* what became of operation t in the step that ran its __get_auth_token
OpTokenState(t) ==
    IF t.st = "token" THEN "pending"
    ELSE IF t.failure = "token" THEN "raised"
    ELSE "handed"

\* what became of get_bucket_keys in that step
ListTokenState(l) ==
    IF l.st = "token" THEN "pending"
    ELSE IF l.failure = "token" THEN "raised"
    ELSE "handed"

(***************************************************************************)
(* FileBroker.__aenter__ / __aexit__ (open / close)                        *)
(***************************************************************************)
\* config.SupportedPlatforms, and config.DEFAULT_PLATFORM
SupportedPlatforms == {"azure", "ibm"}

DEFAULT_PLATFORM == "ibm"

\* __aenter__ (open): the session, then for the IBM platform the service
\* with its empty credential cache; for any other platform the call raises
\* with the session created and no service
aenter ==
    /\ pc = "idle"
    /\ session' = "open"       \* a new ClientSession, whatever was there
    /\ replaced' = IF session = "open" THEN replaced + 1 ELSE replaced
    /\ IF platform = "ibm"
       THEN /\ service' = "IbmCloudStorage"
            /\ expires_at' = -1 /\ access_token' = 0
            /\ UNCHANGED call_vars
       ELSE /\ pc' = "raised"      \* Exception("Cloud platform not supported")
            /\ verb' = "open" /\ args' = [verb |-> "open"]
            /\ forwarded' = NoService /\ returned' = NoValue
            /\ UNCHANGED <<service, expires_at, access_token, batch_limit,
                           cbmode, tasks, window, results, overtaken>>
    /\ UNCHANGED <<split_vars, now, platform, caller_vars, list_vars,
                   world_vars>>

\* __aexit__ (close): `await self.session.close()`; closing a closed
\* session does nothing, and None has no close
aexit ==
    /\ pc = "idle"
    /\ IF session = "None"
       THEN /\ pc' = "raised"              \* AttributeError
            /\ verb' = "close" /\ args' = [verb |-> "close"]
            /\ forwarded' = NoService /\ returned' = NoValue
            /\ UNCHANGED <<session, batch_limit, cbmode, tasks, window, results,
                           overtaken>>
       ELSE /\ session' = "closed"
            /\ UNCHANGED call_vars
    /\ UNCHANGED <<split_vars, cache_vars, service, platform, replaced,
                   caller_vars, list_vars, world_vars>>

(***************************************************************************)
(* FileBroker.sync_local_files for one path.                               *)
(***************************************************************************)
\* exists is os.path.exists(file_path): a path that exists is filtered
\* out, and with no group left nothing is called; a missing path makes one
\* group, downloaded by download_files without a callback
sync_local_files(exists) ==
    IF exists
    THEN /\ pc = "idle"
         /\ pc' = "returned"
         /\ verb' = "sync_local_files" /\ cbmode' = "none"
         /\ args' = [verb |-> "sync_local_files"]
         /\ forwarded' = NoService /\ returned' = NoValue
         /\ tasks' = <<>> /\ results' = <<>> /\ overtaken' = FALSE /\ window' = 0
         /\ UNCHANGED <<split_vars, cache_vars, life_vars, batch_limit>>
    ELSE CallVerb("download_files", "none", 1)

(***************************************************************************)
(* FileBroker.sync_local_files for a list of paths.                        *)
(***************************************************************************)
\* list(filter(lambda file_path: not os.path.exists(file_path), file_paths))
missing_files(file_paths, exists) ==
    SelectSeq(file_paths, LAMBDA file_path : file_path \notin exists)

\* itertools.groupby(paths, os.path.dirname): a group is a run of
\* consecutive paths with the same key, and a new group begins whenever the
\* key changes; the list is not sorted first
RECURSIVE groupby(_)
groupby(paths) ==
    IF Len(paths) = 0 THEN <<>>
    ELSE LET key  == os_path_dirname(Head(paths))
             rest == groupby(Tail(paths))
         IN  IF Len(rest) > 0 /\ rest[1].key = key
             THEN <<[key |-> key, group |-> <<Head(paths)>> \o rest[1].group]>>
                      \o Tail(rest)
             ELSE <<[key |-> key, group |-> <<Head(paths)>>]>> \o rest

\* the arguments of the download_files call for one group
DownloadArgs(g, bucket_name, prefix) ==
    [verb            |-> "download_files",
     bucket_name     |-> bucket_name,
     local_directory |-> g.key,
     file_names      |-> [j \in 1..Len(g.group) |-> os_path_basename(g.group[j])],
     prefix          |-> prefix,
     callback        |-> "none"]

\* sync_local_files up to the first await of its first download_files
\* call, or to its return when no path is missing
SyncCall(file_paths, bucket_name, prefix) ==
    LET missing == missing_files(file_paths, disk)
        groups  == groupby(missing)
        s       == [NoSync EXCEPT !.file_paths    = file_paths,
                                  !.bucket_name   = bucket_name,
                                  !.prefix        = prefix,
                                  !.existed       = disk,
                                  !.missing_files = missing]
    IN  /\ pc = "idle"
        /\ IF Len(groups) = 0
           THEN /\ pc' = "returned"
                /\ verb' = "sync_local_files" /\ cbmode' = "none"
                /\ args' = [verb |-> "sync_local_files"]
                /\ forwarded' = NoService /\ returned' = NoValue
                /\ tasks' = <<>> /\ results' = <<>> /\ overtaken' = FALSE
                /\ window' = 0
                /\ sync' = [s EXCEPT !.st = "returned"]
                /\ UNCHANGED <<split_vars, cache_vars, life_vars, batch_limit>>
           ELSE LET a == DownloadArgs(groups[1], bucket_name, prefix) IN
                /\ Enter(a)
                /\ sync' = [s EXCEPT !.st = "download",
                                     !.download_groups = Tail(groups),
                                     !.downloads = <<a>>]

\* a download_files call of the loop returned: the next group, or the
\* return of sync_local_files, which looks at no result (`failed` only
\* remembers them)
SyncLoop ==
    /\ sync.st = "download"
    /\ pc = "returned"
    /\ LET failed == sync.failed \/ \E k \in 1..Len(tasks) : tasks[k].ret # "True"
       IN
       IF Len(sync.download_groups) = 0
       THEN /\ sync' = [sync EXCEPT !.st = "returned", !.failed = failed]
            /\ UNCHANGED <<split_vars, cache_vars, life_vars, call_vars>>
       ELSE LET a == DownloadArgs(Head(sync.download_groups),
                                  sync.bucket_name, sync.prefix) IN
            /\ Enter(a)
            /\ sync' = [sync EXCEPT !.download_groups = Tail(@),
                                    !.downloads = Append(@, a),
                                    !.failed = failed]

(***************************************************************************)
(* SpecSync: one sync_local_files call on an open broker whose             *)
(* configuration has batch_limit 2, over a local disk.                     *)
(***************************************************************************)
SyncPaths == {"d/ab", "d/b", "e/a"}

SyncPrefixes == {"", "a"}

\* the lists of at most MaxSyncPaths paths, no path twice
SyncLists ==
    {l \in SeqsUpTo(SyncPaths, MaxSyncPaths) :
        \A i, j \in 1..Len(l) : i # j => l[i] # l[j]}

SyncInit ==
    /\ item_names = <<>> /\ delete_tasks = <<>> /\ split_pc = "off"
    /\ now = 0 /\ expires_at = -1 /\ access_token = 0
    /\ batch_limit = 2
    /\ pc = "idle" /\ verb = "none" /\ cbmode = "none"
    /\ tasks = <<>> /\ window = 0 /\ results = <<>> /\ overtaken = FALSE
    /\ Opened
    /\ calls = 0 /\ last_token = NoTokenCall /\ carried = {}
    /\ bucket = <<>> /\ lister = NoListing
    /\ args = NoArgs /\ forwarded = NoService /\ returned = NoValue
    /\ wire = <<>> /\ written = {} /\ sync = NoSync /\ listed = NoListed
    /\ disk \in SUBSET SyncPaths

SyncStart ==
    /\ sync.st = "off"
    /\ \E file_paths \in SyncLists, prefix \in SyncPrefixes :
          SyncCall(file_paths, "b", prefix)
    /\ UNCHANGED <<caller_vars, list_vars, wire, disk, written, listed>>

SyncResume ==
    SyncLoop /\ UNCHANGED <<caller_vars, list_vars, wire, disk, written, listed>>

SyncNext ==
    \/ SyncStart
    \/ SyncResume
    \/ VerbsStartOp
    \/ VerbsTokenResp
    \/ VerbsIoResp
    \/ VerbsWindowDone

SpecSync == SyncInit /\ [][SyncNext]_vars

(***************************************************************************)
(* SpecBroker: a sequential caller with one broker.  Every verb call is    *)
(* for one item, so that one operation runs at a time, and the token       *)
(* endpoint answers the request of the n-th call with the value n.         *)
(***************************************************************************)
BrokerListings == {<<<<1, 2>>, <<3>>>>}

BrokerInit ==
    /\ item_names = <<>> /\ delete_tasks = <<>> /\ split_pc = "off"
    /\ now = 0 /\ expires_at = -1 /\ access_token = 0
    /\ batch_limit = 1000
    /\ pc = "idle" /\ verb = "none" /\ cbmode = "none"
    /\ tasks = <<>> /\ window = 0 /\ results = <<>> /\ overtaken = FALSE
    /\ platform \in SupportedPlatforms
    /\ NotOpened /\ NoCaller

\* the caller opens a broker that was not opened before
BrokerOpen == session = "None" /\ aenter /\ scope' = "opened"

\* ... and closes one that is open
BrokerClose == session = "open" /\ aexit /\ scope' = "exited"

BrokerCall ==
    /\ calls < MaxCalls
    /\ calls' = calls + 1
    /\ \/ \E v \in Verbs, cb \in {"none", "ok"} : CallVerb(v, cb, 1)
       \/ \E exists \in BOOLEAN : sync_local_files(exists)
    /\ UNCHANGED <<last_token, carried, list_vars, world_vars>>

BrokerStartOp ==
    /\ pc = "gather"
    /\ \E current_time \in Times :
          /\ \E file_ok \in FileOutcomes(tasks[1].co.op) :
                 StartOp(1, current_time, file_ok)
          /\ last_token' = TokenCalled(current_time, OpTokenState(tasks'[1]))
    /\ UNCHANGED <<calls, carried, list_vars, world_vars>>

BrokerTokenResp ==
    /\ pc = "gather"
    /\ \E current_time \in Times, answer \in TokenAnswers :
          /\ \E file_ok \in FileOutcomes(tasks[1].co.op) :
                 TokenResp(1, current_time, TokenOutcome(answer), calls, file_ok)
          /\ last_token' =
                 TokenAnswered(current_time, answer, OpTokenState(tasks'[1]))
          /\ carried' = carried \cup Carried(answer, calls, current_time)
    /\ UNCHANGED <<calls, list_vars, world_vars>>

BrokerIoResp ==
    /\ pc = "gather"
    /\ \E outcome \in IoOutcomes(tasks[1].co.op) : IoResp(1, outcome)
    /\ UNCHANGED <<caller_vars, list_vars, world_vars>>

BrokerWindowDone == WindowDone /\ UNCHANGED <<caller_vars, list_vars, world_vars>>

BrokerWindowRaise == WindowRaise /\ UNCHANGED <<caller_vars, list_vars, world_vars>>

BrokerListCall ==
    /\ calls < MaxCalls
    /\ calls' = calls + 1
    /\ \E pages \in BrokerListings, current_time \in Times :
          /\ ListCall("", pages, current_time)
          /\ last_token' =
                 IF service = "None" THEN last_token
                 ELSE TokenCalled(current_time, ListTokenState(lister'))
    /\ UNCHANGED <<carried, world_vars>>

BrokerListTokenResp ==
    /\ \E current_time \in Times, answer \in TokenAnswers :
          /\ ListTokenResp(current_time, TokenOutcome(answer), calls)
          /\ last_token' =
                 TokenAnswered(current_time, answer, ListTokenState(lister'))
          /\ carried' = carried \cup Carried(answer, calls, current_time)
    /\ UNCHANGED <<calls, world_vars>>

BrokerListPageResp ==
    /\ \E outcome \in PageOutcomes : ListPageResp(outcome)
    /\ UNCHANGED <<caller_vars, world_vars>>

\* the call is over and the caller goes on to its next statement
BrokerResume ==
    /\ pc \in {"returned", "raised"}
    /\ pc' = "idle"
    /\ UNCHANGED <<split_vars, cache_vars, life_vars, batch_limit, verb, args,
                   forwarded, returned, cbmode, tasks, window, results,
                   overtaken, caller_vars, list_vars, world_vars>>

BrokerNext ==
    \/ BrokerOpen
    \/ BrokerClose
    \/ BrokerCall
    \/ BrokerStartOp
    \/ BrokerTokenResp
    \/ BrokerIoResp
    \/ BrokerWindowDone
    \/ BrokerWindowRaise
    \/ BrokerListCall
    \/ BrokerListTokenResp
    \/ BrokerListPageResp
    \/ BrokerResume

SpecBroker == BrokerInit /\ [][BrokerNext]_vars

(***************************************************************************)
(* Claims about the splitter (SpecSplit).                                  *)
(***************************************************************************)
RECURSIVE ConcatKeys(_, _)
ConcatKeys(ts, k) ==
    IF k > Len(ts) THEN <<>>
    ELSE RequestKeys(ts[k].delete_request) \o ConcatKeys(ts, k + 1)

BatchSizes(ts) ==
    [k \in 1..Len(ts) |-> Len(ts[k].delete_request.Object)]

CeilDiv(n, d) == (n + d - 1) \div d

\* C1: the batches, concatenated in the order they are produced, equal the
\* input list: no key lost, none duplicated, input order kept.
C1_ConcatIsInput ==
    split_pc = "done" => ConcatKeys(delete_tasks, 1) = item_names

C1_Witness ==
    /\ split_pc = "done"
    /\ Len(delete_tasks) >= 3
    /\ item_names = KeyList(Len(item_names), 0)    \* all keys distinct

\* C2: every batch holds at least 1 and at most 1000 keys.
C2_BatchSize ==
    split_pc = "done" =>
        \A k \in 1..Len(delete_tasks) :
            /\ Len(delete_tasks[k].delete_request.Object) >= 1
            /\ Len(delete_tasks[k].delete_request.Object) <= 1000

C2_Witness ==
    /\ split_pc = "done"
    /\ Len(item_names) > 1000
    /\ \E k \in 1..Len(delete_tasks) :
           Len(delete_tasks[k].delete_request.Object) = 1000

\* C3: one operation per batch: none for an empty list, ceil(N/1000) for N
\* keys, and sizes 1000, 1000, 1 for 2001 keys.
C3_TaskCount ==
    split_pc = "done" =>
        /\ (Len(item_names) = 0 => delete_tasks = <<>>)
        /\ Len(delete_tasks) = CeilDiv(Len(item_names), 1000)
        /\ \A k \in 1..Len(delete_tasks) : delete_tasks[k].op = "remove_item"
        /\ (Len(item_names) = 2001 => BatchSizes(delete_tasks) = <<1000, 1000, 1>>)

C3_Witness ==
    /\ split_pc = "done"
    /\ Len(item_names) = 2001
    /\ Len(delete_tasks) = 3

(***************************************************************************)
(* Claims about the executor and the operations (Spec).                    *)
(***************************************************************************)
Ops == 1..Len(tasks)

InFlightOps == {k \in Ops : InFlight(tasks[k])}

\* the window of operation k, counted from 0, for a batch_limit >= 1
WindowOf(k) == (k - 1) \div batch_limit

\* C4: with batch_limit = B >= 1, at most B operations of the call are
\* started and not yet completed, in every state.
C4_BoundedInFlight ==
    batch_limit >= 1 => Cardinality(InFlightOps) <= batch_limit

C4_Witness ==
    /\ batch_limit = 2
    /\ Len(tasks) = 3
    /\ Cardinality({k \in Ops : tasks[k].st \in {"token", "io"}}) = 2

\* C5: when the verb has gone back to its caller, every operation it was
\* given has run to completion, whatever the outcomes of the others.
C5_AllRunBeforeReturn ==
    (pc \in {"returned", "raised"} /\ batch_limit >= 1 /\ cbmode # "raises")
        => \A k \in Ops : Finished(tasks[k])

\* C6: a per-item failure never aborts the batch: the verb does not raise,
\* no operation raises, and a failed item is a False result.
C6_FailureNeverAborts ==
    (batch_limit >= 1 /\ cbmode # "raises") =>
        /\ pc # "raised"
        /\ \A k \in Ops :
              /\ tasks[k].st # "raised"
              /\ (tasks[k].st = "done" /\ tasks[k].failure # "none")
                     => tasks[k].ret = "False"

\* C7: no operation of a later window is started before every operation of
\* the earlier windows has completed.
C7_WindowBarrier ==
    batch_limit >= 1 =>
        \A i, j \in Ops :
            (WindowOf(i) < WindowOf(j) /\ tasks[j].st # "new")
                => Finished(tasks[i])

\* a later window was started after an operation of an earlier window had
\* ended before an earlier operation of its own window
C7_Witness ==
    /\ batch_limit >= 1
    /\ overtaken
    /\ \E j \in Ops : WindowOf(j) >= 1 /\ tasks[j].st \in {"token", "io"}

\* C8: an upload_file or download_file operation invokes its callback
\* exactly once, when it ends, with succeeded equal to the boolean it
\* returns (True on success, False on failure); without a callback it
\* invokes none and returns that boolean.
C8_TransferCallbackOnce ==
    \A k \in Ops :
        tasks[k].co.op \in {"upload_file", "download_file"} =>
            /\ ~Finished(tasks[k]) => tasks[k].cb_calls = 0
            /\ Finished(tasks[k]) =>
                  /\ tasks[k].cb_calls = (IF cbmode = "none" THEN 0 ELSE 1)
                  /\ cbmode # "none" =>
                        (tasks[k].cb_succeeded = "True" <=> tasks[k].failure = "none")
                  /\ cbmode # "none" => tasks[k].cb_succeeded \in {"True", "False"}
            /\ tasks[k].st = "done" =>
                  /\ tasks[k].ret \in {"True", "False"}
                  /\ tasks[k].ret = "True" <=> tasks[k].failure = "none"
                  /\ cbmode # "none" => tasks[k].cb_succeeded = tasks[k].ret

C8_Witness ==
    /\ cbmode = "ok"
    /\ \E i, j \in Ops :
          /\ tasks[i].co.op = "upload_file"
          /\ tasks[i].st = "done" /\ tasks[i].ret = "True" /\ tasks[i].cb_calls = 1
          /\ tasks[j].st = "done" /\ tasks[j].ret = "False" /\ tasks[j].cb_calls = 1

\* C9: a remove_item operation given a callback invokes it exactly once per
\* POST, on success and on failure, and on failure returns False instead of
\* raising.
C9_RemoveCallbackOnce ==
    \A k \in Ops :
        (tasks[k].co.op = "remove_item" /\ cbmode = "ok"
            /\ tasks[k].sent = 1 /\ Finished(tasks[k]))
        => /\ tasks[k].cb_calls = 1
           /\ tasks[k].st = "done"
           /\ tasks[k].failure # "none" => tasks[k].ret = "False"

\* C10, as claimed: the remove callback is handed the keys of the
\* operation's own batch.
C10_CallbackGetsBatchKeys ==
    \A k \in Ops :
        (tasks[k].co.op = "remove_item" /\ tasks[k].cb_calls >= 1)
            => tasks[k].cb_file_list = RequestKeys(tasks[k].co.delete_request)

\* C10, amended: whenever a remove_item operation invokes the callback, the
\* key list it hands over is the list of keys the response reports Deleted.
C10_CallbackGetsReportedKeys ==
    \A k \in Ops :
        (tasks[k].co.op = "remove_item" /\ tasks[k].cb_calls >= 1)
            => /\ tasks[k].failure = "none"
               /\ tasks[k].cb_file_list =
                      Reported(RequestKeys(tasks[k].co.delete_request),
                               tasks[k].answer)

C10_Witness ==
    \E k \in Ops :
        /\ tasks[k].co.op = "remove_item"
        /\ Len(tasks[k].co.delete_request.Object) = 1000
        /\ tasks[k].answer = "first"
        /\ tasks[k].cb_calls = 1
        /\ Len(tasks[k].cb_file_list) = 1

(***************************************************************************)
(* Claims about the credential cache (SpecBroker, and Spec for C15).       *)
(***************************************************************************)
\* the most recent call of __get_auth_token is over
TokenCallOver == last_token.st \in {"handed", "raised"}

\* the token endpoint did not answer that call with a success status and a
\* body that has both fields
TokenAnswerBad ==
    /\ last_token.posts = 1
    /\ \/ last_token.status \in {"unreachable", "non_success"}
       \/ last_token.body \in {"no_expiration", "no_access_token", "not_json"}

\* C11: a call made before the cached expiry returns the cached value and
\* issues no token exchange; a call made at or after it (from the start,
\* with expiry -1, every call) issues exactly one, and returns the value
\* that exchange brought.
C11_RefreshOnlyWhenExpired ==
    /\ (last_token.st # "none" /\ last_token.asked < last_token.exp0) =>
           /\ last_token.st = "handed"
           /\ last_token.posts = 0
           /\ last_token.value = last_token.tok0
    /\ (last_token.st # "none" /\ last_token.asked >= last_token.exp0
            /\ session = "open") =>
           last_token.posts = 1
    /\ (last_token.st = "handed" /\ last_token.posts = 1) =>
           /\ last_token.value # last_token.tok0
           /\ <<last_token.value, last_token.exp>> \in carried
           /\ access_token = last_token.value
           /\ expires_at = last_token.exp

\* a token was fetched, expired, and the next call fetched another one
C11_Witness ==
    /\ last_token.st = "handed"
    /\ last_token.tok0 # 0
    /\ last_token.asked >= last_token.exp0
    /\ last_token.posts = 1
    /\ last_token.value # last_token.tok0

\* C12: when a token value is handed out, the cached expiry is strictly
\* later than the current time.
C12_HandedOutBeforeExpiry ==
    last_token.st = "handed" => last_token.exp > last_token.at

\* a value fetched by an earlier call is handed out from the cache
C12_Witness ==
    /\ last_token.st = "handed"
    /\ last_token.posts = 0
    /\ last_token.tok0 # 0
    /\ last_token.value = last_token.tok0
    /\ calls >= 2

\* C13: the cached pair is the initial pair or the pair one response
\* carried, and a response that lacks one of the two fields changes
\* neither the value nor the expiry.
C13_PairReplacedTogether ==
    /\ \/ <<access_token, expires_at>> = <<0, -1>>
       \/ <<access_token, expires_at>> \in carried
    /\ (TokenCallOver /\ last_token.body \in {"no_expiration", "no_access_token"})
           => /\ access_token = last_token.tok0
              /\ expires_at = last_token.exp0

\* the operation, or the listing, that made the most recent call of
\* __get_auth_token reported a failure
AskerReportsFailure ==
    IF verb = "get_bucket_keys"
    THEN /\ pc = "returned"
         /\ lister.failure = "token"
         /\ lister.ret = <<>>
    ELSE /\ Len(tasks) = 1
         /\ tasks[1].st = "done"
         /\ tasks[1].ret = "False"
         /\ tasks[1].sent = 0
         /\ cbmode = "ok" =>
               /\ tasks[1].cb_calls = 1
               /\ tasks[1].co.op # "remove_item" => tasks[1].cb_succeeded = "False"

\* C14: when the token endpoint is unreachable, answers with a non-success
\* status, or answers with a body that lacks access_token or expiration,
\* __get_auth_token hands out no token and the operation that asked for it
\* reports failure.
C14_BadAnswerFailsAsker ==
    (TokenCallOver /\ TokenAnswerBad) =>
        /\ last_token.st = "raised"
        /\ AskerReportsFailure

\* C15: every operation of a window that finds the token expired issues a
\* token exchange of its own, and every exchange that is answered with a
\* token lets its operation proceed and leaves the value and the expiry of
\* its response in the cache: the response that lands last stays.
C15_LastResponseStays ==
    [][\A i \in 1..Len(tasks) :
          /\ (tasks[i].st = "ready" /\ tasks'[i].st # "ready"
                 /\ now' >= expires_at)
                => tasks'[i].st = "token"
          /\ (tasks[i].st = "token" /\ tasks'[i].st # "token"
                 /\ tasks'[i].failure # "token")
                => /\ access_token' = i
                   /\ expires_at' = now' + TokenTTL
                   /\ tasks'[i].st = "io" \/ tasks'[i].failure = "open"
      ]_vars

\* both operations of the first window exchanged a token, and the response
\* to the first one landed after the response to the second
C15_Witness ==
    /\ batch_limit = 2 /\ window = 0
    /\ Len(tasks) >= 2
    /\ tasks[1].st = "io" /\ tasks[2].st = "io"
    /\ access_token = 1

(***************************************************************************)
(* Claims about the listing (SpecList).                                    *)
(***************************************************************************)
\* the keys of all pages
KeysOf(pages) ==
    UNION {{pages[p][j] : j \in 1..Len(pages[p])} : p \in 1..Len(pages)}

\* the pages that hold key k
PagesOf(pages, k) ==
    {p \in 1..Len(pages) : \E j \in 1..Len(pages[p]) : pages[p][j] = k}

\* the last of them
LastPageOf(pages, k) ==
    CHOOSE p \in PagesOf(pages, k) : \A q \in PagesOf(pages, k) : q <= p

\* get_bucket_keys read every page of the chain and returned
Listed ==
    /\ verb = "get_bucket_keys"
    /\ lister.st = "returned"
    /\ lister.failure = "none"

\* C16: for a listing served as a chain of pages, the mapping returned has
\* exactly the keys of all pages, each mapped to the metadata of its page
\* item (of the last page that holds it, should a key recur).
C16_UnionOfPages ==
    Listed =>
        /\ lister.requests = Len(bucket)
        /\ DOMAIN lister.ret = KeysOf(bucket)
        /\ \A k \in KeysOf(bucket) :
              lister.ret[k] = [last_modified |-> LastPageOf(bucket, k), bytes |-> k]

C16_Witness ==
    /\ Listed
    /\ Len(bucket) = 2
    /\ bucket[1] = <<1, 2>> /\ bucket[2] = <<3>>
    /\ DOMAIN lister.ret = {1, 2, 3}

\* C17: a failure of the token exchange, of a page request or of the
\* parsing of a page never leaves get_bucket_keys as an exception: the
\* call returns the empty mapping.
C17_ListFailureReturnsEmpty ==
    (verb = "get_bucket_keys" /\ service # "None") =>
        /\ pc # "raised"
        /\ lister.failure # "none" =>
              /\ pc = "returned"
              /\ lister.st = "returned"
              /\ lister.ret = <<>>

\* the second page failed after the first had been merged
C17_Witness ==
    /\ verb = "get_bucket_keys"
    /\ lister.failure \in {"net", "parse"}
    /\ lister.requests = 2
    /\ lister.all_items # <<>>
    /\ pc = "returned"

\* C18: a page whose Contents is a single object yields that one key with
\* its metadata, on the first page and on a continuation page alike.
C18_SingletonPage ==
    Listed =>
        \A p \in 1..Len(bucket) :
            Len(bucket[p]) = 1 =>
                LET k == bucket[p][1] IN
                /\ ListBucketResult(bucket, p).Contents.shape = "dict"
                /\ k \in DOMAIN lister.ret
                /\ LastPageOf(bucket, k) = p =>
                      lister.ret[k] = [last_modified |-> p, bytes |-> k]

C18_Witness ==
    /\ Listed
    /\ Len(bucket) = 2
    /\ bucket[1] = <<2>> /\ bucket[2] = <<1>>
    /\ DOMAIN lister.ret = {1, 2}
    /\ lister.ret[1].last_modified = 2

(***************************************************************************)
(* Claims about the broker's life (SpecBroker) and the upload (Spec).      *)
(***************************************************************************)
\* C19: a verb called on a broker that was not opened, or that was closed,
\* raises to the caller and issues no network request.
C19_VerbOutsideOpenRaises ==
    (session # "open" /\ pc \in {"returned", "raised"}) =>
        /\ pc = "raised"
        /\ Len(tasks) = 0
        /\ lister.requests = 0

\* C20: an upload_file operation returns False when the local file cannot
\* be opened and when the PUT is answered with a non-success status, and
\* True only when the PUT was answered with a success status; it does not
\* raise.
C20_UploadReportsStatus ==
    \A k \in Ops :
        (tasks[k].co.op = "upload_file" /\ Finished(tasks[k])
            /\ cbmode # "raises")
        => /\ tasks[k].st = "done"
           /\ tasks[k].ret \in {"True", "False"}
           /\ tasks[k].ret = "True" <=> tasks[k].answer = "ok"

\* C24: a download_file operation returns False, and does not raise, when
\* the GET fails, when it is answered with a non-success status and when
\* the destination cannot be written, whatever becomes of the other
\* downloads; it returns True only when the bytes were received with a
\* success status and written.
C24_DownloadReportsStatus ==
    \A k \in Ops :
        (tasks[k].co.op = "download_file" /\ Finished(tasks[k])
            /\ cbmode # "raises")
        => /\ tasks[k].st = "done"
           /\ tasks[k].ret \in {"True", "False"}
           /\ tasks[k].ret = "True" <=> tasks[k].answer = "ok"

(***************************************************************************)
(* SpecVerbs, continued: get_bucket_keys next to the other verbs.          *)
(***************************************************************************)
VerbsListCall ==
    /\ pc = "idle"
    /\ \E prefix \in Prefixes, pages \in BrokerListings, current_time \in Times :
          ListCall(prefix, pages, current_time)
    /\ UNCHANGED <<caller_vars, world_vars>>

VerbsListTokenResp ==
    /\ \E current_time \in Times, outcome \in TokenOutcomes :
          ListTokenResp(current_time, outcome, 1)
    /\ UNCHANGED <<caller_vars, world_vars>>

VerbsListPageResp ==
    /\ \E outcome \in PageOutcomes : ListPageResp(outcome)
    /\ UNCHANGED <<caller_vars, world_vars>>

VerbsNext ==
    \/ VerbsCall
    \/ VerbsStartOp
    \/ VerbsTokenResp
    \/ VerbsIoResp
    \/ VerbsWindowDone
    \/ VerbsWindowRaise
    \/ VerbsListCall
    \/ VerbsListTokenResp
    \/ VerbsListPageResp

SpecVerbs == VerbsInit /\ [][VerbsNext]_vars

(***************************************************************************)
(* Claims about the platform of a broker (SpecBroker).                     *)
(***************************************************************************)
\* C27: the platform given at construction decides the backend: once opened,
\* a broker built with platform AZURE holds an AzureCloudStorage service and
\* a broker built with the default platform holds an IbmCloudStorage service,
\* at every later moment of its life
C27_PlatformSelectsBackend ==
    /\ (session # "None" /\ platform = "azure") => service = "AzureCloudStorage"
    /\ (session # "None" /\ platform = DEFAULT_PLATFORM)
           => service = "IbmCloudStorage"

(***************************************************************************)
(* Claims about the verbs and their requests (SpecVerbs).                  *)
(***************************************************************************)
\* the requests operation i put on the wire
WireOf(i) == SelectSeq(wire, LAMBDA r : r.task = i)

\* every operation of the call got its token and, for an upload, its file
AllReachedRequest ==
    \A k \in Ops : tasks[k].failure \notin {"token", "open"}

\* C21: upload_files over M mappings issues one PUT per mapping, none
\* split into parts, exactly M when every operation reaches its request,
\* each addressed to bucket/(prefix + cloud_key), the bare cloud_key when
\* the prefix is empty, and each carrying the bearer token the credential
\* cache handed to the operation in the step that sent the PUT; when all
\* succeed the callback is invoked M times with succeeded=true.
C21_UploadRequests ==
    [][verb' = "upload_files" =>
          LET M == Len(args'.cloud_map_list) IN
          /\ Len(tasks') = M
          /\ \A k \in 1..M :
                /\ Len(WireOf(k))' <= 1
                /\ Len(WireOf(k))' = tasks'[k].sent
          /\ \A n \in 1..Len(wire') :
                LET r == wire'[n]
                    m == args'.cloud_map_list[r.task]
                IN  /\ r.method = "PUT"
                    /\ r.data = m.local_filepath
                    /\ args'.prefix = "" =>
                          r.url = "cos/" \o args'.bucket_name \o "/" \o m.cloud_key
                    /\ args'.prefix # "" =>
                          r.url = "cos/" \o args'.bucket_name \o "/"
                                      \o args'.prefix \o m.cloud_key
                    /\ n > Len(wire) =>
                          /\ r.bearer = access_token'
                          /\ tasks'[r.task].failure # "token"
          /\ (pc' = "returned" /\ AllReachedRequest') => Len(wire') = M
          /\ (pc' = "returned" /\ cbmode' = "ok"
                  /\ \A k \in 1..M : tasks'[k].ret = "True")
                => \A k \in 1..M : /\ tasks'[k].cb_calls = 1
                                    /\ tasks'[k].cb_succeeded = "True"
      ]_vars

\* two mappings uploaded under a prefix, both PUTs answered, the callback
\* told twice
C21_Witness ==
    /\ verb = "upload_files" /\ pc = "returned"
    /\ args.prefix = "p" /\ cbmode = "ok"
    /\ Len(tasks) = 2 /\ Len(wire) = 2
    /\ wire[1].url = "cos/b/ppa"
    /\ \A k \in 1..2 : tasks[k].ret = "True" /\ tasks[k].cb_calls = 1

\* the keys the body of a bulk-delete POST enumerates, in order
BodyKeys(data) == [j \in 1..Len(data.Delete) |-> data.Delete[j].Object.Key]

\* the k-th run of 1000 keys of a key list, the last one shorter
BatchOf(keys, k) ==
    SubSeq(keys, 1000 * (k - 1) + 1, Min(1000 * k, Len(keys)))

\* the bodies of the POSTs of the operations k, k + 1, ..., one after the
\* other
RECURSIVE ConcatBodies(_)
ConcatBodies(k) ==
    IF k > Len(tasks) THEN <<>>
    ELSE BodyKeys(WireOf(k)[1].data) \o ConcatBodies(k + 1)

Suffixes(string) ==
    {SubSeq(string, j, Len(string)) : j \in 1..(Len(string) + 1)}

\* the key without the prefix at its front, the key itself when it does
\* not start with the prefix
Stripped(key, prefix) ==
    IF \E rest \in Suffixes(key) : prefix \o rest = key
    THEN CHOOSE rest \in Suffixes(key) : prefix \o rest = key
    ELSE key

\* C23: download_files builds exactly one download operation per requested
\* key, in input order; each requests the key itself from the bucket and
\* writes to the destination directory joined with the key with the prefix
\* stripped from its front (the key unchanged when it does not start with
\* the prefix).
C23_DownloadOperations ==
    verb = "download_files" =>
        /\ Len(tasks) = Len(args.file_names)
        /\ \A k \in Ops :
              /\ tasks[k].co.op = "download_file"
              /\ tasks[k].co.bucket_name = args.bucket_name
              /\ tasks[k].co.cloud_key = args.file_names[k]
              /\ tasks[k].co.destination_filepath =
                     os_path_join(args.local_directory,
                                  Stripped(args.file_names[k], args.prefix))
              /\ Len(WireOf(k)) = tasks[k].sent
              /\ tasks[k].sent <= 1
        /\ \A n \in 1..Len(wire) :
              /\ wire[n].method = "GET"
              /\ wire[n].url = "cos/" \o args.bucket_name \o "/"
                                   \o args.file_names[wire[n].task]
        /\ written =
               {tasks[k].co.destination_filepath :
                   k \in {h \in Ops : tasks[h].answer
                                          \in {"ok", "http_error", "read_fail"}}}

\* the keys "pa" and "a" were downloaded with the prefix "p"
C23_Witness ==
    /\ verb = "download_files" /\ pc = "returned"
    /\ args.prefix = "p" /\ args.file_names = <<"pa", "a">>
    /\ tasks[1].co.destination_filepath = "d/a"
    /\ tasks[2].co.destination_filepath = "d/a"
    /\ Len(wire) = 2
    /\ wire[1].url = "cos/b/pa"
    /\ written = {"d/a"}

(***************************************************************************)
(* Claims about what the verbs pass to the service (SpecVerbs).            *)
(***************************************************************************)
\* the service was called with the arguments of upload_files
UploadForwarded ==
    /\ forwarded.method = "get_upload_files_coroutines"
    /\ forwarded.bucket_name = args.bucket_name
    /\ forwarded.cloud_map_list = args.cloud_map_list
    /\ forwarded.prefix = args.prefix
    /\ forwarded.callback = args.callback

\* ... of download_files
DownloadForwarded ==
    /\ forwarded.method = "get_download_files_coroutines"
    /\ forwarded.bucket_name = args.bucket_name
    /\ forwarded.local_directory = args.local_directory
    /\ forwarded.cloud_key_list = args.file_names
    /\ forwarded.prefix = args.prefix
    /\ forwarded.callback = args.callback

\* ... of remove_items: bucket, keys and callback
RemoveForwarded ==
    /\ forwarded.method = "get_remove_items_coroutines"
    /\ forwarded.bucket_name = args.bucket_name
    /\ forwarded.item_names = args.cloud_keys
    /\ forwarded.callback = args.callback

\* ... of get_bucket_keys, and the caller has what the service returned
ListForwarded ==
    /\ forwarded.method = "get_bucket_keys"
    /\ forwarded.bucket_name = args.bucket_name
    /\ forwarded.prefix = args.prefix
    /\ pc = "returned" => returned = [is |-> "value", value |-> lister.ret]

\* a verb that returned has awaited every operation the service gave it
AwaitedAll ==
    (pc = "returned" /\ verb \in {"upload_files", "download_files", "remove_items"})
        => \A k \in 1..Len(tasks) : tasks[k].st = "done"

SameListingAgain ==
    /\ pc = "returned" /\ listed.is = "value"
    /\ listed.bucket_name = args.bucket_name /\ listed.prefix = args.prefix
    /\ listed.bucket = bucket
    /\ listed.failure = "none" /\ lister.failure = "none"

\* C29: two get_bucket_keys calls with the same bucket and prefix, the
\* bucket unchanged in between and the provider answering both, return
\* identical mappings, whether or not the token expired between the calls
C29_SameListingTwice ==
    SameListingAgain => returned.value = listed.value

\* the second call refreshed the token and got the three keys again
C29_Witness ==
    /\ SameListingAgain
    /\ access_token = 2
    /\ DOMAIN returned.value = {1, 2, 3}

\* the second call used the token of the first and got the three keys again
C29_WitnessCached ==
    /\ SameListingAgain
    /\ access_token = 1
    /\ DOMAIN returned.value = {1, 2, 3}

\* the listing requests of a get_bucket_keys call, as far as it has come:
\* the n-th request asks for the n-th page, a request after the first is
\* issued only after a truncated page and carries that page's
\* NextContinuationToken, and the call that read the chain has issued one
\* request per page, the last of them answered by the untruncated page
OneRequestPerPage ==
    verb = "get_bucket_keys" =>
        LET n == lister.requests IN
        /\ n <= Len(bucket)
        /\ lister.st = "page" => PageAsked(lister.params) = n
        /\ (lister.st = "page" /\ n >= 2) =>
              LET before == ListBucketResult(bucket, n - 1) IN
              /\ before.IsTruncated = "true"
              /\ lister.params.continuation_token = before.NextContinuationToken
        /\ Listed =>
              /\ n = Len(bucket)
              /\ ListBucketResult(bucket, n).IsTruncated # "true"

\* C30: the listing loop issues exactly one request per page and stops at
\* the first page whose IsTruncated is not "true": each request after the
\* first carries the NextContinuationToken of the page before it, no request
\* is issued after the untruncated page, and for every finite chain of
\* pages get_bucket_keys terminates
C30_ListingLoop ==
    /\ []OneRequestPerPage
    /\ (pc = "listing") ~> (pc = "returned")

\* a chain of MaxPages pages was read with MaxPages requests
C30_Witness ==
    /\ Listed /\ pc = "returned"
    /\ Len(bucket) = MaxPages
    /\ lister.requests = MaxPages
    /\ lister.params.continuation_token = MaxPages

(***************************************************************************)
(* Claims about sync_local_files (SpecSync).                               *)
(***************************************************************************)
\* the paths sync_local_files was given
SyncGiven == {sync.file_paths[j] : j \in 1..Len(sync.file_paths)}

\* ... those that did not exist when it was called
SyncMissing == {p \in SyncGiven : p \notin sync.existed}

\* the keys of the download_files calls n, n + 1, ... of the loop, counted
RECURSIVE KeysAsked(_)
KeysAsked(n) ==
    IF n > Len(sync.downloads) THEN 0
    ELSE Len(sync.downloads[n].file_names) + KeysAsked(n + 1)

\* C25: sync_local_files triggers a download for exactly the given paths
\* that do not exist on local disk when it is called: every request is for
\* a missing path, there is one download per missing path, and the file of
\* a path that exists is never opened for writing by the call.
C25_SyncOnlyMissing ==
    sync.st # "off" =>
        /\ \A n \in 1..Len(wire) :
              \E p \in SyncMissing :
                  wire[n].url = "cos/" \o sync.bucket_name \o "/"
                                    \o os_path_basename(p)
        /\ Len(wire) <= Cardinality(SyncMissing)
        /\ sync.st = "returned" => KeysAsked(1) = Cardinality(SyncMissing)
        /\ written \cap (SyncGiven \ SyncMissing) = {}

\* the download_files calls made for the directory d
CallsFor(d) ==
    {n \in 1..Len(sync.downloads) : sync.downloads[n].local_directory = d}

\* the base names of the missing paths of directory d, in the order given
NamesIn(d) ==
    LET there == SelectSeq(sync.missing_files,
                           LAMBDA p : os_path_dirname(p) = d)
    IN  [j \in 1..Len(there) |-> os_path_basename(there[j])]

\* C26: sync_local_files issues exactly one download_files call per
\* distinct directory of the missing paths, whatever their order in the
\* list, with the directory as destination and the base names of its
\* missing paths as cloud keys.
C26_OneCallPerDirectory ==
    sync.st = "returned" =>
        LET dirs == {os_path_dirname(p) : p \in SyncMissing} IN
        /\ Len(sync.downloads) = Cardinality(dirs)
        /\ \A d \in dirs :
              /\ Cardinality(CallsFor(d)) = 1
              /\ \A n \in CallsFor(d) :
                    sync.downloads[n].file_names = NamesIn(d)

(***************************************************************************)
(* Claims about the params of the listing requests (SpecList).             *)
(***************************************************************************)
\* C31: only the first listing request carries the prefix parameter, and
\* only when the prefix is not empty; every continuation request carries
\* continuation-token and no prefix.
C31_PrefixOnFirstRequestOnly ==
    (verb = "get_bucket_keys" /\ lister.st = "page") =>
        /\ lister.requests = 1 =>
              /\ lister.params.continuation_token = 0
              /\ lister.params.prefix = "absent" <=> lister.prefix = ""
        /\ lister.requests >= 2 =>
              /\ lister.params.continuation_token # 0
              /\ lister.params.prefix = "absent"

(***************************************************************************)
(* Claims about keys that recur and listings that fail (SpecList).         *)
(***************************************************************************)
\* C32: when the same key appears on two pages of one listing, the result
\* holds that key once, with the metadata of the later page.
C32_LaterPageWins ==
    Listed =>
        \A k \in KeysOf(bucket) :
            Cardinality(PagesOf(bucket, k)) >= 2 =>
                /\ k \in DOMAIN lister.ret
                /\ lister.ret[k].last_modified = LastPageOf(bucket, k)
                /\ lister.ret[k].bytes = k

\* key 2 was served on both pages
C32_Witness ==
    /\ Listed
    /\ bucket = <<<<1, 2>>, <<2, 3>>>>
    /\ DOMAIN lister.ret = {1, 2, 3}
    /\ lister.ret[2].last_modified = 2

\* C38: the result of get_bucket_keys is all or nothing: the complete merge
\* of all pages of the listing, or the empty mapping; never the keys of
\* only the pages fetched before a failing page.
C38_AllOrNothing ==
    lister.st = "returned" =>
        \/ lister.ret = <<>>
        \/ /\ DOMAIN lister.ret = KeysOf(bucket)
           /\ \A k \in KeysOf(bucket) :
                 lister.ret[k] = [last_modified |-> LastPageOf(bucket, k), bytes |-> k]

\* the second page did not parse after the first had been merged, and the
\* call returned nothing of the first
C38_Witness ==
    /\ lister.st = "returned"
    /\ lister.failure = "parse"
    /\ lister.requests = 2
    /\ DOMAIN lister.all_items = {bucket[1][j] : j \in 1..Len(bucket[1])}
    /\ DOMAIN lister.all_items # KeysOf(bucket)
    /\ lister.all_items # <<>>
    /\ lister.ret = <<>>

(***************************************************************************)
(* Claims about the windows of the executor (Spec).                        *)
(***************************************************************************)
\* the operations that were handed to asyncio.gather so far
Started == {k \in Ops : tasks[k].st # "new"}

\* C33: for batch_limit B >= 1 and N operations the executor forms exactly
\* ceil(N/B) consecutive windows, each of at most B operations taken in
\* input order, and collects exactly N results, the i-th result being the
\* result of the i-th operation.
C33_WindowsAndResults ==
    (batch_limit >= 1 /\ cbmode # "raises" /\ pc \in {"gather", "returned", "raised"})
        => /\ window % batch_limit = 0
           /\ Started = 1..Min(window + batch_limit, Len(tasks))
           /\ Len(results) = Min(window, Len(tasks))
              \/ Len(results) = Len(tasks)
           /\ \A i \in 1..Len(results) : results[i] = tasks[i].ret
           /\ pc \in {"returned", "raised"} =>
                 /\ Cardinality({WindowOf(k) : k \in Started})
                        = CeilDiv(Len(tasks), batch_limit)
                 /\ Len(results) = Len(tasks)

\* C34: a verb call never returns normally while some of its operations were
\* never run: for every batch_limit, 0 and negative values included,
\* upload_files, download_files and remove_items either run every operation
\* or raise to the caller.
C34_ReturnsOnlyAfterRunningAll ==
    (pc = "returned" /\ verb \in {"upload_files", "download_files", "remove_items"})
        => \A k \in Ops : tasks[k].st # "new"

\* C35: at the moment a verb call returns or raises to its caller, none of
\* the operations it started is still in flight, so that a close() right
\* after the call never closes the session under a running operation.
C35_NothingInFlightAfterCall ==
    (pc \in {"returned", "raised"} /\ cbmode # "raises") => InFlightOps = {}

(***************************************************************************)
(* SpecLife: the callers of __aenter__ / __aexit__.  One caller uses       *)
(* `async with`: when __aenter__ raises the scope is left without          *)
(* __aexit__, otherwise __aexit__ runs when the body ends, normally or by  *)
(* an exception.  The other calls open() and close() itself, open() also   *)
(* a second time.  Inside, the caller lists the bucket.                    *)
(***************************************************************************)
LifeInit ==
    /\ item_names = <<>> /\ delete_tasks = <<>> /\ split_pc = "off"
    /\ now = 0 /\ expires_at = -1 /\ access_token = 0
    /\ batch_limit = 1000
    /\ pc = "idle" /\ verb = "none" /\ cbmode = "none"
    /\ tasks = <<>> /\ window = 0 /\ results = <<>> /\ overtaken = FALSE
    /\ platform \in SupportedPlatforms
    /\ NotOpened /\ NoCaller

\* `async with broker:` up to the body
LifeWithEnter ==
    /\ scope = "out"
    /\ aenter
    /\ scope' = IF pc' = "raised" THEN "exited" ELSE "with"

\* the body ended, by an exception or not: __aexit__ runs
LifeWithExit ==
    /\ scope = "with"
    /\ \E body_raises \in BOOLEAN :
          /\ aexit
          /\ scope' = "exited"

\* broker.open(), the first time and again
LifeOpen ==
    /\ scope \in {"out", "opened"}
    /\ replaced + 1 < MaxOpens
    /\ aenter
    /\ scope' = "opened"

\* broker.close()
LifeClose ==
    /\ scope = "opened"
    /\ aexit
    /\ scope' = "exited"

\* get_bucket_keys inside the scope
LifeListCall ==
    /\ pc = "idle" /\ scope \in {"with", "opened"}
    /\ verb # "get_bucket_keys"
    /\ \E pages \in BrokerListings, current_time \in Times :
          ListCall("", pages, current_time)
    /\ UNCHANGED <<caller_vars, world_vars>>

LifeListTokenResp ==
    /\ \E current_time \in Times, outcome \in TokenOutcomes :
          ListTokenResp(current_time, outcome, 1)
    /\ UNCHANGED <<caller_vars, world_vars>>

LifeListPageResp ==
    /\ \E outcome \in PageOutcomes : ListPageResp(outcome)
    /\ UNCHANGED <<caller_vars, world_vars>>

LifeResume == BrokerResume

LifeNext ==
    \/ LifeWithEnter
    \/ LifeWithExit
    \/ LifeOpen
    \/ LifeClose
    \/ LifeListCall
    \/ LifeListTokenResp
    \/ LifeListPageResp
    \/ LifeResume

SpecLife == LifeInit /\ [][LifeNext]_vars

(***************************************************************************)
(* Claims about the sessions of a broker (SpecLife).                       *)
(***************************************************************************)
\* C36: after close() or the exit of the async-with scope has completed, no
\* session the broker created is open, for every sequence of open and close
\* calls: open followed by a raising body, open on an unsupported platform,
\* open called twice before close.
C36_NoSessionLeftOpen ==
    scope = "exited" => (session # "open" /\ replaced = 0)

(***************************************************************************)
(* Claims about what sync_local_files leaves on disk (SpecSync)            *)
(***************************************************************************)
\* C37: when every download it triggers succeeds, sync_local_files leaves
\* every path of its input list existing on local disk, and the files it
\* wrote are those of the missing paths themselves, whatever the prefix.
C37_SyncLeavesPathsOnDisk ==
    (sync.st = "returned" /\ ~sync.failed) =>
        /\ SyncGiven \subseteq disk
        /\ written = SyncMissing

(***************************************************************************)
(* SpecClock: one get_bucket_keys call on an open broker, with a clock     *)
(* that goes on while the listing requests are answered.                   *)
(***************************************************************************)
ClockCall ==
    /\ pc = "idle"
    /\ verb # "get_bucket_keys"
    /\ \E prefix \in Prefixes, pages \in FairChains, current_time \in Times :
          ListCall(prefix, pages, current_time)
    /\ UNCHANGED <<caller_vars, world_vars>>

ClockTokenResp ==
    /\ \E current_time \in Times, outcome \in TokenOutcomes :
          ListTokenResp(current_time, outcome, 1)
    /\ UNCHANGED <<caller_vars, world_vars>>

ClockPageResp ==
    /\ \E current_time \in Times, outcome \in PageOutcomes :
          ListPageAnswered(current_time, outcome)
    /\ UNCHANGED <<caller_vars, world_vars>>

ClockNext ==
    \/ ClockCall
    \/ ClockTokenResp
    \/ ClockPageResp

SpecClock == ListInit /\ [][ClockNext]_vars

(***************************************************************************)
(* Claims about the token of a request (SpecClock).                        *)
(***************************************************************************)
\* C39: every storage request carries a bearer token that is unexpired when
\* the request is issued; every page request of a listing does, the first
\* and the later ones, although the listing asks for a token once.
C39_TokenUnexpiredAtRequest ==
    (pc = "listing" /\ lister.st = "page") => now < expires_at

(***************************************************************************)
(* Claims about the destination of a download (SpecVerbs).                 *)
(***************************************************************************)
\* the download k of the call is the only one with its destination
OwnDestination(k) ==
    \A h \in Ops \ {k} :
        tasks[h].co.destination_filepath # tasks[k].co.destination_filepath

\* C40: a download that reports succeeded=False leaves its destination path
\* as it was before the operation: the file is neither created nor
\* truncated, that is, never opened for writing by the operation.
C40_FailedDownloadKeepsDestination ==
    verb = "download_files" =>
        \A k \in Ops :
            (Finished(tasks[k]) /\ tasks[k].ret = "False" /\ OwnDestination(k))
            => tasks[k].co.destination_filepath \notin written

====
